---- MODULE Spec2Model ----
(***************************************************************************)
(* A model of Grevling's instance lifecycle engine: the asyncio pipeline   *)
(* (grevling/workflow), the stages Prepare, Run and Download, the          *)
(* persisted instance status (grevling/instance.py) and the script and     *)
(* command executor (grevling/script.py).                                  *)
(***************************************************************************)
EXTENDS Integers, Sequences, FiniteSets, TLC

\* ------------------------------------------------------------------ bounds
MaxItems == 2       \* instances of a case
MaxCopies == 2      \* nprocs: workers of the Run stage
MaxCmds == 3        \* commands of a script
MaxAttempts == 2    \* attempts of one command the model follows
MaxFiles == 3       \* files of the case's source directory
MaxEntries == 3     \* entries of a file map
MaxMatches == 2     \* matches of a capture's regex in a stdout
MaxText == 2        \* different texts a group can match
MaxCaptures == 2    \* calls of Instance.capture the model follows
MaxCollects == 2    \* calls of Case.collect the model follows
MaxParams == 2      \* parameters of a parameter space
MaxValues == 3      \* values of a parameter
MaxEvals == 2       \* evaluables of a case
MaxList == 2        \* elements of a list value
MaxVersion == 4     \* versions of a TypedObject class

\* --------------------------------------------------------------- constants
\* api.Status, in lifecycle order
Statuses == <<"created", "prepared", "started", "finished", "downloaded">>

StatusSet == {Statuses[k] : k \in 1..Len(Statuses)}

\* LocalWorkflow.pipeline: Pipeline(PrepareInstance, RunInstance, DownloadResults)
Pipes == <<"Prepare", "Run", "Download">>

NPipes == Len(Pipes)

\* process exit codes the model draws from (0 is success)
ExitCodes == {0, 1, 2}

VARIABLES
    \* ---- the case and its storage
    script,       \* the case's commands: sequence of [allow_failure, retry_on_fail]
    ninst,        \* number of instances of the case
    status,       \* status.txt of each instance ("absent" when there is none)
    captured,     \* captured.json of each instance (NoBook when there is none)
    lbook,        \* the local book-keeping directory's script record
    remote,       \* whether the remote workspace directory exists
    rbook,        \* the remote book-keeping directory's script record
    premap,       \* Case.premap: sequence of file map entries [mode, source]
    srcfiles,     \* the files present in the case's source directory
    ignore_missing, \* Case._ignore_missing
    wfiles,       \* per instance: the files in its remote workspace
    \* ---- the pipeline
    nprocs,       \* LocalWorkflow.nprocs
    mainpc,       \* position of the orchestrator (command run, Pipeline._run/work)
    joinIdx,      \* the pipe whose input queue Pipeline.work is joining
    ninputs,      \* Pipeline._run: queue.qsize()
    queues,       \* queues[s]: input queue of pipe s
    unfinished,   \* Queue._unfinished_tasks of queues[s]
    npiped,       \* PipeSegment.npiped
    tasks,        \* the worker tasks: [pc, arg, cancel]
    success,      \* Pipeline._run's return value (read when mainpc = "done")
    \* ---- history (not program state)
    log,          \* per instance: the sequence of <<pipe, event>>
    \* ---- one script execution (ScriptTemplate.run)
    spc,          \* "idle", "exec", "done"
    cmdIdx,       \* index of the command being executed
    attempts,     \* attempts made of the current command
    stdout,       \* set of commands whose <name>.stdout was written
    collector,    \* set of commands whose captures were collected
    result,       \* ScriptTemplate.run's return value (read when spc = "done")
    attemptLog,   \* history: sequence of <<command, exit code>>, one per attempt
    returns,      \* history: sequence of <<command, exit code, returned value>>
    \* ---- one call of FileMap.copy
    fm,           \* [pc, idx, target, result, done]
    \* ---- one downloaded instance and the calls of Instance.capture on it
    cap,          \* [pc, capture, matches, collector, before, captured, downloaded, status, ncapt]
    \* ---- the dataframe file of the case
    df,           \* [data: the rows, in order; ncollect: calls of Case.collect so far]
    \* ---- one enumeration of the instances of a case
    en,           \* [pc, pools, where, constants, evaluables, k, out]
    \* ---- one call of ContextProvider.raw_evaluate
    ev,           \* [pc, given, context, constants, evaluables, names, allowed, add_constants, k]
    \* ---- one value taken through a type of typing.py
    ty,           \* [pc, type, value, existing, coerced, encoded, decoded, into]
    \* ---- processes working on one storage root
    lk,           \* [n, holder, op, at]
    \* ---- the remote workspaces of the instances of one run
    rw,           \* [n, template, context, stage, remote, opened, dirs]
    \* ---- the output files of one instance's script, run and downloaded
    lf,           \* [pc, script, k, attempts, rcs, wrote, remote, local, status]
    \* ---- one TypedObject made from data
    ob,           \* [pc, stage, V, given, data, version, json]
    \* ---- status.txt of one instance and the Instance objects opened on its logdir
    sf,           \* [file, cache, last]
    \* ---- one call of Instance.download with a postmap
    dl,           \* [pc, script, book, ignore_missing, postmap, remote, local, copied, status]
    \* ---- one script whose commands write and read their book files by name
    nm            \* [pc, script, k, wrote, remote, local, seen]

caseVars == <<script, ninst, status, captured, lbook, remote, rbook,
              premap, srcfiles, ignore_missing, wfiles>>

pipeVars == <<nprocs, mainpc, joinIdx, ninputs, queues, unfinished, npiped, tasks, success>>

histVars == <<log>>

scriptVars == <<spc, cmdIdx, attempts, stdout, collector, result, attemptLog, returns>>

\* the state of the operations modelled on their own
extVars == <<fm, cap, df, en, ev, ty, lk, rw, lf, ob, sf, dl, nm>>

vars == <<caseVars, pipeVars, histVars, scriptVars, extVars>>

Items == 1..ninst

\* ------------------------------------------------------------------ script
\* A command's flags (Command.retry_on_fail, Command.allow_failure)
Cmd(allow, retry) == [allow_failure |-> allow, retry_on_fail |-> retry]

Commands == [allow_failure : BOOLEAN, retry_on_fail : BOOLEAN]

Scripts == UNION {[1..n -> Commands] : n \in 0..MaxCmds}

\* A variant of Retries that gives up after one repetition
Retries_Once(cmd, rc) == cmd.retry_on_fail /\ rc # 0 /\ lf.attempts < 1

\* A variant of Retries in which retry_on_fail has no effect
Retries_Never(cmd, rc) == FALSE

\* Command.execute, lines 85-91: whether the attempt that exited with rc is retried
Retries(cmd, rc) == cmd.retry_on_fail /\ rc # 0

\* A variant of ExecuteReturns in which allow_failure has no effect
ExecuteReturns_ExitOnly(cmd, rc) == rc = 0

\* Command.execute, lines 99-108: the value returned after the last attempt
ExecuteReturns(cmd, rc) == IF rc # 0 THEN cmd.allow_failure ELSE TRUE

\* The exit codes with which Command.execute can leave its loop (lines 86-91)
FinalExits(cmd) == {rc \in ExitCodes : ~Retries(cmd, rc)}

\* ScriptTemplate.run from command k on, given each command's last exit code:
\* the value returned and the number of commands executed
RECURSIVE RunFrom(_, _, _)
RunFrom(scr, ex, k) ==
    IF k > Len(scr) THEN [success |-> TRUE, nexec |-> Len(scr)]
    ELSE IF ~ExecuteReturns(scr[k], ex[k]) THEN [success |-> FALSE, nexec |-> k]
    ELSE RunFrom(scr, ex, k + 1)

ScriptRun(scr, ex) == RunFrom(scr, ex, 1)

\* What one run of the script can leave behind
ScriptOutcomes(scr) ==
    {ScriptRun(scr, ex) : ex \in {e \in [1..Len(scr) -> ExitCodes] :
                                    \A k \in 1..Len(scr) : e[k] \in FinalExits(scr[k])}}

\* ScriptTemplate.capture / CommandTemplate.capture: every command's
\* <name>.stdout is opened; a missing file makes open() raise
CaptureRaises(scr, book) == \E k \in 1..Len(scr) : k > book[1].nexec

\* ---------------------------------------------- one script execution, stepwise
\* ScriptTemplate.run is entered
ScriptStart ==
    /\ spc = "idle"
    /\ IF Len(script) = 0
       THEN spc' = "done" /\ result' = TRUE /\ UNCHANGED cmdIdx
       ELSE spc' = "exec" /\ cmdIdx' = 1 /\ UNCHANGED result
    /\ attempts' = 0
    /\ UNCHANGED <<stdout, collector, attemptLog, returns>>
    /\ UNCHANGED <<caseVars, pipeVars, histVars, extVars>>

\* Command.execute, lines 86-90: subprocess.run returns rc and the loop continues
AttemptRetry(rc) ==
    /\ spc = "exec"
    /\ attempts < MaxAttempts
    /\ Retries(script[cmdIdx], rc)
    /\ attempts' = attempts + 1
    /\ attemptLog' = Append(attemptLog, <<cmdIdx, rc>>)
    /\ UNCHANGED <<spc, cmdIdx, stdout, collector, result, returns>>
    /\ UNCHANGED <<caseVars, pipeVars, histVars, extVars>>

\* A variant of AfterExecute in which ScriptTemplate.run ignores the value
\* a command returned and goes on to the next command
AfterExecute_Continue(ret) ==
    IF cmdIdx = Len(script) THEN
        /\ result' = TRUE
        /\ spc' = "done"
        /\ UNCHANGED cmdIdx
    ELSE
        /\ cmdIdx' = cmdIdx + 1
        /\ UNCHANGED <<spc, result>>

\* ScriptTemplate.run, lines 232-236: what follows a command's return value
AfterExecute(ret) ==
    IF ~ret THEN
        /\ result' = FALSE
        /\ spc' = "done"
        /\ UNCHANGED cmdIdx
    ELSE IF cmdIdx = Len(script) THEN
        /\ result' = TRUE
        /\ spc' = "done"
        /\ UNCHANGED cmdIdx
    ELSE
        /\ cmdIdx' = cmdIdx + 1
        /\ UNCHANGED <<spc, result>>

\* Command.execute, lines 87-108: subprocess.run returns rc, the loop is left,
\* stdout is written and captured, and execute returns to ScriptTemplate.run
AttemptFinal(rc) ==
    /\ spc = "exec"
    /\ attempts < MaxAttempts
    /\ ~Retries(script[cmdIdx], rc)
    /\ attemptLog' = Append(attemptLog, <<cmdIdx, rc>>)
    /\ stdout' = stdout \cup {cmdIdx}
    /\ collector' = collector \cup {cmdIdx}
    /\ returns' = Append(returns, <<cmdIdx, rc, ExecuteReturns(script[cmdIdx], rc)>>)
    /\ attempts' = 0
    /\ AfterExecute(ExecuteReturns(script[cmdIdx], rc))
    /\ UNCHANGED <<caseVars, pipeVars, histVars, extVars>>

\* ---------------------------------------------------------------- file maps
Files == 1..MaxFiles

\* SingleFileMap: mode simple names one source path, mode glob a pattern (the
\* pattern of the model, 0, is '*': it matches every file there is)
Entries == [mode : {"simple"}, source : Files] \cup [mode : {"glob"}, source : {0}]

FileMaps == UNION {[1..n -> Entries] : n \in 0..MaxEntries}

\* SingleFileMap.iter_paths: the source paths of an entry
IterPaths(e, present) == IF e.mode = "simple" THEN {e.source} ELSE present

\* A variant of SingleFileMapCopy in which ignore_missing has no effect
SingleFileMapCopy_Strict(e, present, ignore, target) ==
    LET paths == IterPaths(e, present) IN
    IF \E f \in paths : f \notin present
        THEN [ok |-> FALSE, target |-> target]
        ELSE [ok |-> TRUE, target |-> target \cup paths]

\* SingleFileMap.copy: a missing path ends the call with False, or is skipped
\* when ignore_missing is set; every other path is written to the target
SingleFileMapCopy(e, present, ignore, target) ==
    LET paths == IterPaths(e, present) IN
    IF (\E f \in paths : f \notin present) /\ ~ignore
        THEN [ok |-> FALSE, target |-> target]
        ELSE [ok |-> TRUE, target |-> target \cup (paths \cap present)]

\* FileMap.copy from element k on
RECURSIVE FileMapCopyFrom(_, _, _, _, _)
FileMapCopyFrom(elements, k, present, ignore, target) ==
    IF k > Len(elements) THEN [ok |-> TRUE, target |-> target]
    ELSE LET r == SingleFileMapCopy(elements[k], present, ignore, target) IN
         IF ~r.ok THEN [ok |-> FALSE, target |-> r.target]
         ELSE FileMapCopyFrom(elements, k + 1, present, ignore, r.target)

FileMapCopy(elements, present, ignore, target) ==
    FileMapCopyFrom(elements, 1, present, ignore, target)

fmFrame == <<caseVars, pipeVars, histVars, scriptVars, cap, df, en, ev, ty, lk, rw, lf, ob, sf, dl, nm>>

\* FileMap.copy is called with an empty target workspace
FileMapStart ==
    /\ fm.pc = "idle"
    /\ fm' = IF Len(premap) = 0
             THEN [fm EXCEPT !.pc = "done", !.result = TRUE]
             ELSE [fm EXCEPT !.pc = "copy", !.idx = 1]
    /\ UNCHANGED fmFrame

\* FileMap.copy, lines 124-127: one turn of the loop, one call of SingleFileMap.copy
FileMapElement ==
    /\ fm.pc = "copy"
    /\ LET r == SingleFileMapCopy(premap[fm.idx], srcfiles, ignore_missing, fm.target) IN
        fm' = IF ~r.ok
              THEN [fm EXCEPT !.pc = "done", !.result = FALSE, !.target = r.target,
                              !.done = Append(@, fm.idx)]
              ELSE IF fm.idx = Len(premap)
              THEN [fm EXCEPT !.pc = "done", !.result = TRUE, !.target = r.target,
                              !.done = Append(@, fm.idx)]
              ELSE [fm EXCEPT !.idx = @ + 1, !.target = r.target,
                              !.done = Append(@, fm.idx)]
    /\ UNCHANGED fmFrame

FileMapIdle == [pc |-> "idle", idx |-> 0, target |-> {}, result |-> FALSE, done |-> <<>>]

\* ---------------------------------------------------------------- captures
\* The named groups of a capture's regex, in the order of groupdict()
Groups == <<"a", "b">>

\* Capture: its mode and the number of named groups of its regex
Captures == [mode : {"first", "last", "all"}, ngroups : 1..Len(Groups)]

\* What a group matches: a text, named by the number it spells
Texts == 1..MaxText

\* The matches of a capture's regex in a stdout, in order of occurrence: each
\* gives the text of every named group
Stdouts(c) == UNION {[1..k -> [1..c.ngroups -> Texts]] : k \in 0..MaxMatches}

\* Typed values. A value is a scalar (depth 0, one leaf), a list of scalars
\* (depth 1, its elements the leaves), or a list of one-element lists (depth 2)
ScalarValue(n) == [d |-> 0, xs |-> <<n>>]

\* Scalar.coerce: the typed value of a text
ScalarCoerce(text) == ScalarValue(text)

\* List.coerce of a value that is not a list: [eltype.coerce(value)]
ListCoerce(text) == [d |-> 1, xs |-> <<text>>]

\* list.append(value): one more element, of the depth of value
ListAppend(l, v) == [d |-> v.d + 1, xs |-> l.xs \o v.xs]

EmptyList == [d |-> 1, xs |-> <<>>]

\* dict assignment
SetItem(coll, name, v) ==
    [k \in DOMAIN coll \cup {name} |-> IF k = name THEN v ELSE coll[k]]

\* dict.setdefault(name, [])
SetDefault(coll, name) == IF name \in DOMAIN coll THEN coll[name] ELSE EmptyList

\* CaptureCollection.collect for a list type (is_list) or another type
Collect(coll, name, text, is_list) ==
    IF is_list
    THEN SetItem(coll, name, ListAppend(SetDefault(coll, name), ListCoerce(text)))
    ELSE SetItem(coll, name, ScalarCoerce(text))

\* Capture.find_in, lines 79-98: the matches whose groups are collected
Filtered(mode, matches) ==
    IF mode = "first" THEN (IF matches = <<>> THEN <<>> ELSE <<matches[1]>>)
    ELSE IF mode = "last" THEN (IF matches = <<>> THEN <<>> ELSE <<matches[Len(matches)]>>)
    ELSE matches

\* Capture.find_in, lines 101-102: the groups of one match, from group g on
RECURSIVE CollectGroups(_, _, _, _)
CollectGroups(c, match, g, coll) ==
    IF g > c.ngroups THEN coll
    ELSE CollectGroups(c, match, g + 1, Collect(coll, Groups[g], match[g], c.mode = "all"))

\* Capture.find_in, lines 100-102: the filtered matches from match j on
RECURSIVE CollectMatches(_, _, _, _)
CollectMatches(c, ms, j, coll) ==
    IF j > Len(ms) THEN coll
    ELSE CollectMatches(c, ms, j + 1, CollectGroups(c, ms[j], 1, coll))

\* A variant of FindIn in which mode all first gives every group an empty list
FindIn_WithDefault(c, matches, coll) ==
    LET start == IF c.mode = "all"
                 THEN [k \in DOMAIN coll \cup {Groups[g] : g \in 1..c.ngroups} |->
                          IF k \in DOMAIN coll THEN coll[k] ELSE EmptyList]
                 ELSE coll
    IN CollectMatches(c, Filtered(c.mode, matches), 1, start)

\* Capture.find_in
FindIn(c, matches, coll) == CollectMatches(c, Filtered(c.mode, matches), 1, coll)

\* What collect_from_dict(context) and collect_from_info(book) give for the instance
InfoCollector == [k \in {"g_index", "g_success"} |-> ScalarValue(IF k = "g_index" THEN 0 ELSE 1)]

\* A variant of CaptureBase in which the collector starts from captured.json
CaptureBase_FromCache(info, cached) ==
    [k \in DOMAIN info \cup DOMAIN cached |-> IF k \in DOMAIN cached THEN cached[k] ELSE info[k]]

\* Instance.capture, lines 143-145: the new collector before the script's captures
CaptureBase(info, cached) == info

capFrame == <<caseVars, pipeVars, histVars, scriptVars, fm, df, en, ev, ty, lk, rw, lf, ob, sf, dl, nm>>

\* Instance.capture, lines 141-145: a new collector, the context, the book's info
CaptureStart ==
    /\ cap.pc = "idle"
    /\ cap.status = "downloaded"
    /\ cap.ncapt < MaxCaptures
    /\ cap' = [cap EXCEPT !.pc = "find", !.collector = CaptureBase(InfoCollector, cap.captured)]
    /\ UNCHANGED capFrame

\* Instance.capture, line 146: ScriptTemplate.capture reads the command's
\* stdout from the book and calls Capture.find_in
CaptureFindIn ==
    /\ cap.pc = "find"
    /\ cap' = [cap EXCEPT !.pc = "commit",
                          !.before = cap.collector,
                          !.collector = FindIn(cap.capture, cap.matches, cap.collector)]
    /\ UNCHANGED capFrame

\* Instance.capture, line 147: commit_to_file writes captured.json
CaptureCommit ==
    /\ cap.pc = "commit"
    /\ cap' = [cap EXCEPT !.pc = "idle", !.captured = cap.collector, !.ncapt = @ + 1]
    /\ UNCHANGED capFrame

\* No instance to capture from
NoCapture == [pc |-> "off"]

\* A downloaded instance whose command wrote a stdout with the given matches:
\* captured.json is what Instance.download wrote (lines 126-136)
Downloaded(c, ms) ==
    [pc |-> "idle", capture |-> c, matches |-> ms, collector |-> InfoCollector,
     before |-> InfoCollector,
     captured |-> FindIn(c, ms, InfoCollector),
     downloaded |-> FindIn(c, ms, InfoCollector),
     status |-> "downloaded", ncapt |-> 0]

\* ------------------------------------------------------------------ typing
\* Python values: None, an int, a bool, a float (n counts halves: 3 is 1.5), a
\* str, a datetime (the instant n, with a time zone or naive), a list
Value(k, n, s, tz, xs) == [k |-> k, n |-> n, s |-> s, tz |-> tz, xs |-> xs]

None == Value("none", 0, "", FALSE, <<>>)

IntValue(n) == Value("int", n, "", FALSE, <<>>)

BoolValue(b) == Value("bool", IF b THEN 1 ELSE 0, "", FALSE, <<>>)

FloatValue(h) == Value("float", h, "", FALSE, <<>>)

StrValue(s) == Value("str", 0, s, FALSE, <<>>)

DateTimeValue(n, tz) == Value("dt", n, "", tz, <<>>)

ListValue(xs) == Value("list", 0, "", FALSE, xs)

\* The scalar values the model takes through the types
ScalarValues ==
    {IntValue(n) : n \in 0..2} \cup {BoolValue(b) : b \in BOOLEAN}
        \cup {FloatValue(h) : h \in 0..4}
        \cup {StrValue(s) : s \in {"0", "1", "1.5", "zomg", "T1"}}
        \cup {DateTimeValue(n, tz) : n \in 1..2, tz \in BOOLEAN}

\* The values the lists are made of
ElementValues ==
    {IntValue(1), StrValue("1"), BoolValue(FALSE), StrValue("zomg"),
     DateTimeValue(1, FALSE), DateTimeValue(1, TRUE)}

ListValues == {ListValue(xs) : xs \in UNION {[1..n -> ElementValues] : n \in 0..MaxList}}

\* The types: the scalar types and List of each
ScalarTypes == {"Integer", "Float", "String", "Boolean", "DateTime"}

Types == [list : BOOLEAN, el : ScalarTypes]

\* Coercion raises
Raises == [ok |-> FALSE, v |-> None]

Returns(v) == [ok |-> TRUE, v |-> v]

IntTexts == <<"0", "1", "2">>

FloatTexts == <<"0.0", "0.5", "1.0", "1.5", "2.0">>

\* int(value)
PyInt(v) ==
    IF v.k \in {"int", "bool"} THEN Returns(IntValue(v.n))
    ELSE IF v.k = "float" THEN Returns(IntValue(v.n \div 2))
    ELSE IF v.k = "str" /\ \E n \in 0..2 : IntTexts[n + 1] = v.s
         THEN Returns(IntValue(CHOOSE n \in 0..2 : IntTexts[n + 1] = v.s))
    ELSE Raises

\* float(value)
PyFloat(v) ==
    IF v.k \in {"int", "bool"} THEN Returns(FloatValue(2 * v.n))
    ELSE IF v.k = "float" THEN Returns(v)
    ELSE IF v.k = "str" /\ \E n \in 0..2 : IntTexts[n + 1] = v.s
         THEN Returns(FloatValue(2 * (CHOOSE n \in 0..2 : IntTexts[n + 1] = v.s)))
    ELSE IF v.k = "str" /\ \E h \in 0..4 : FloatTexts[h + 1] = v.s
         THEN Returns(FloatValue(CHOOSE h \in 0..4 : FloatTexts[h + 1] = v.s))
    ELSE Raises

\* A variant of Strftime that writes the date only
Strftime_DateOnly(v) == IF v.n = 1 THEN "D1" ELSE "D2"

\* datetime.strftime('%Y-%m-%d %H:%M:%S.%f'): the instant, without the time zone
Strftime(v) == IF v.n = 1 THEN "T1" ELSE "T2"

\* datetime.strptime(value, '%Y-%m-%d %H:%M:%S.%f'): a naive datetime
Strptime(s) ==
    IF s = "T1" THEN Returns(DateTimeValue(1, FALSE))
    ELSE IF s = "T2" THEN Returns(DateTimeValue(2, FALSE))
    ELSE Raises

\* str(value)
PyStr(v) ==
    IF v.k = "int" THEN StrValue(IntTexts[v.n + 1])
    ELSE IF v.k = "bool" THEN StrValue(IF v.n = 1 THEN "True" ELSE "False")
    ELSE IF v.k = "float" THEN StrValue(FloatTexts[v.n + 1])
    ELSE IF v.k = "str" THEN v
    ELSE IF v.k = "dt" THEN StrValue(IF v.tz THEN (IF v.n = 1 THEN "S1+00:00" ELSE "S2+00:00")
                                     ELSE (IF v.n = 1 THEN "S1" ELSE "S2"))
    ELSE StrValue("repr")

\* bool(value)
PyBool(v) ==
    IF v.k \in {"int", "bool", "float"} THEN BoolValue(v.n # 0)
    ELSE IF v.k = "str" THEN BoolValue(v.s # "")
    ELSE IF v.k = "list" THEN BoolValue(v.xs # <<>>)
    ELSE BoolValue(v.k # "none")

\* Scalar.coerce, and coerce of String, DateTime and Boolean
ScalarTypeCoerce(el, v) ==
    IF el = "Integer" THEN PyInt(v)
    ELSE IF el = "Float" THEN PyFloat(v)
    ELSE IF el = "String"
         THEN (IF v.k = "bool" THEN Returns(PyStr(PyInt(v).v)) ELSE Returns(PyStr(v)))
    ELSE IF el = "Boolean"
         THEN (IF v.k = "str"
               THEN (IF PyInt(v).ok THEN Returns(PyBool(PyInt(v).v)) ELSE Raises)
               ELSE Returns(PyBool(v)))
    ELSE IF v.k = "str" THEN Strptime(v.s)
    ELSE IF v.k = "dt" THEN Returns(v)
    ELSE Raises

\* [eltype.coerce(v) for v in value]
CoerceEach(el, xs) ==
    IF \A j \in 1..Len(xs) : ScalarTypeCoerce(el, xs[j]).ok
    THEN Returns(ListValue([j \in 1..Len(xs) |-> ScalarTypeCoerce(el, xs[j]).v]))
    ELSE Raises

\* Type.coerce: List.coerce for a list type, else the scalar's
TypeCoerce(tp, v) ==
    IF ~tp.list THEN ScalarTypeCoerce(tp.el, v)
    ELSE IF v.k = "list" THEN CoerceEach(tp.el, v.xs)
    ELSE CoerceEach(tp.el, <<v>>)

\* A variant of TypeCoerceInto in which a list type replaces what exists
TypeCoerceInto_Replace(tp, new, existing) == TypeCoerce(tp, new)

\* Type.coerce_into: List.coerce_into for a list type, else the scalar's
TypeCoerceInto(tp, new, existing) ==
    IF ~tp.list THEN TypeCoerce(tp, new)
    ELSE IF existing.k = "list"
         THEN LET r == CoerceEach(tp.el, IF new.k = "list" THEN new.xs ELSE <<new>>)
              IN IF r.ok THEN Returns(ListValue(existing.xs \o r.v.xs)) ELSE Raises
    ELSE TypeCoerce(tp, new)

\* Scalar.to_json, DateTime.to_json of a value the type has coerced
ScalarToJson(el, v) ==
    IF el = "DateTime" THEN StrValue(Strftime(v)) ELSE ScalarTypeCoerce(el, v).v

\* Type.to_json: List.to_json for a list type, else the scalar's
TypeToJson(tp, v) ==
    IF tp.list THEN ListValue([j \in 1..Len(v.xs) |-> ScalarToJson(tp.el, v.xs[j])])
    ELSE ScalarToJson(tp.el, v)

tyFrame == <<caseVars, pipeVars, histVars, scriptVars, fm, cap, df, en, ev, lk, rw, lf, ob, sf, dl, nm>>

\* Type.coerce(value) returns
TypingCoerce ==
    /\ ty.pc = "start"
    /\ TypeCoerce(ty.type, ty.value).ok
    /\ ty' = [ty EXCEPT !.pc = "coerced", !.coerced = TypeCoerce(ty.type, ty.value).v]
    /\ UNCHANGED tyFrame

\* Type.coerce(value) raises
TypingCoerceRaises ==
    /\ ty.pc = "start"
    /\ ~TypeCoerce(ty.type, ty.value).ok
    /\ ty' = [ty EXCEPT !.pc = "raised"]
    /\ UNCHANGED tyFrame

\* Type.to_json of the coerced value; written as JSON it keeps its kind and value
TypingToJson ==
    /\ ty.pc = "coerced"
    /\ ty' = [ty EXCEPT !.pc = "encoded", !.encoded = TypeToJson(ty.type, ty.coerced)]
    /\ UNCHANGED tyFrame

\* Type.coerce of the value read back from JSON
TypingDecode ==
    /\ ty.pc = "encoded"
    /\ ty' = [ty EXCEPT !.pc = "decoded", !.decoded = TypeCoerce(ty.type, ty.encoded)]
    /\ UNCHANGED tyFrame

\* Type.coerce_into(value, existing)
TypingCoerceInto ==
    /\ ty.pc = "start"
    /\ ty' = [ty EXCEPT !.pc = "into", !.into = TypeCoerceInto(ty.type, ty.value, ty.existing)]
    /\ UNCHANGED tyFrame

\* No value
NoTyping == [pc |-> "off"]

\* ------------------------------------------------------------ storage lock
\* The processes that work on one storage root, and what each may be told to do
Procs == 1..2

CaseOperations == {"run", "capture", "collect"}

\* The operation's body is inside `with self.lock()`: collect's is, the bodies
\* of run and capture are not
TakesLock(o) == o = "collect"

lkFrame == <<caseVars, pipeVars, histVars, scriptVars, fm, cap, df, en, ev, ty, rw, lf, ob, sf, dl, nm>>

\* A process enters Case.run, Case.capture or Case.collect; InterProcessLock
\* lets it into a locked body only when no process holds the lock file
CaseEnter(p, o) ==
    /\ lk.op[p] = "idle"
    /\ TakesLock(o) => lk.holder = 0
    /\ lk' = [lk EXCEPT !.op[p] = o, !.at[p] = 0,
                        !.holder = IF TakesLock(o) THEN p ELSE @]
    /\ UNCHANGED lkFrame

\* The operation's loop handles its next instance
CaseStep(p) ==
    /\ lk.op[p] # "idle"
    /\ lk.at[p] < lk.n
    /\ lk' = [lk EXCEPT !.at[p] = @ + 1]
    /\ UNCHANGED lkFrame

\* The operation returns, and leaves the lock if it holds it
CaseLeave(p) ==
    /\ lk.op[p] # "idle"
    /\ lk.at[p] = lk.n
    /\ lk' = [lk EXCEPT !.op[p] = "idle", !.at[p] = 0,
                        !.holder = IF @ = p THEN 0 ELSE @]
    /\ UNCHANGED lkFrame

\* No process
NoLock == [n |-> 0]

\* ------------------------------------------------------- remote workspaces
\* The logdir templates of the model: the default, one that names a parameter,
\* and one without a placeholder
LogdirTemplates == {"${g_index}", "${a}", "out"}

\* render(template, context): the text of the named value, or the template
\* itself when it has no placeholder
Render(template, context) ==
    IF template = "${g_index}" THEN IntTexts[context.g_index + 1]
    ELSE IF template = "${a}" THEN IntTexts[context.a + 1]
    ELSE template

\* Instance.logdir of instance i: context['_logdir'], the rendered template
Logdir(i) == Render(rw.template, rw.context[i])

\* The stage whose apply binds the instance next, and where it is afterwards
StageAfter(st) ==
    IF st = "created" THEN "Prepare"
    ELSE IF st = "Prepare" THEN "prepared"
    ELSE IF st = "prepared" THEN "Run"
    ELSE IF st = "Run" THEN "finished"
    ELSE IF st = "finished" THEN "Download"
    ELSE "downloaded"

\* Instances inside the apply of a stage
Inside(s) == {j \in 1..rw.n : rw.stage[j] = s}

rwFrame == <<caseVars, pipeVars, histVars, scriptVars, fm, cap, df, en, ev, ty, lk, lf, ob, sf, dl, nm>>

\* A worker of the next stage takes the instance and opens its workspace
\* <root>/<logdir>, mkdir with exist_ok: Prepare and Download through
\* Instance.bind_remote, Run through Instance.open_workspace
OpenWorkspace(i) ==
    /\ rw.stage[i] \in {"created", "prepared", "finished"}
    /\ Cardinality(Inside(StageAfter(rw.stage[i])))
            < (IF StageAfter(rw.stage[i]) = "Run" THEN MaxCopies ELSE 1)
    /\ rw' = [rw EXCEPT !.stage[i] = StageAfter(@),
                        !.remote[i] = IF StageAfter(rw.stage[i]) = "Run" THEN "" ELSE Logdir(i),
                        !.opened[i] = @ \cup {Logdir(i)},
                        !.dirs = @ \cup {Logdir(i)}]
    /\ UNCHANGED rwFrame

\* The apply of Prepare or Run ends; after a with block remote is None again
UnbindRemote(i) ==
    /\ rw.stage[i] \in {"Prepare", "Run"}
    /\ rw' = [rw EXCEPT !.stage[i] = StageAfter(@), !.remote[i] = ""]
    /\ UNCHANGED rwFrame

\* DownloadResults.apply after the with block: destroy_workspace(logdir)
DestroyWorkspace(i) ==
    /\ rw.stage[i] = "Download"
    /\ rw' = [rw EXCEPT !.stage[i] = StageAfter(@), !.remote[i] = "",
                        !.dirs = @ \ {Logdir(i)}]
    /\ UNCHANGED rwFrame

\* No run
NoWorkspaces == [n |-> 0]

\* ------------------------------------------------------------ output files
\* What one attempt of a command can give: its exit code and the bytes it wrote
\* to its standard output and standard error
AttemptResults ==
    {[rc |-> 0, out |-> "a", err |-> ""],
     [rc |-> 1, out |-> "b", err |-> "e"],
     [rc |-> 2, out |-> "", err |-> "f"]}

\* The files <name>.stdout and <name>.stderr of command k with these bytes
OutputFiles(k, r) == {<<k, "stdout", r.out>>, <<k, "stderr", r.err>>}

\* A variant of WriteOutput that keeps the output of successful commands only
WriteOutput_OnSuccess(files, k, r) ==
    IF r.rc = 0 THEN {f \in files : f[1] # k} \cup OutputFiles(k, r) ELSE files

\* Command.execute, lines 93-94: log_ws.write_file of <name>.stdout and
\* <name>.stderr, whatever the exit code
WriteOutput(files, k, r) == {f \in files : f[1] # k} \cup OutputFiles(k, r)

lfFrame == <<caseVars, pipeVars, histVars, scriptVars, fm, cap, df, en, ev, ty, lk, rw, ob, sf, dl, nm>>

\* Command.execute, lines 86-90: the attempt exited non-zero and retry_on_fail
\* is set; its result is dropped and the command is run again
OutputRetry(r) ==
    /\ lf.pc = "run"
    /\ lf.attempts < MaxAttempts
    /\ Retries(lf.script[lf.k], r.rc)
    /\ lf' = [lf EXCEPT !.attempts = @ + 1]
    /\ UNCHANGED lfFrame

\* Command.execute, lines 87-108, and ScriptTemplate.run: the loop is left, the
\* output is written to the remote book, and the value execute returns decides
\* whether the script goes on; RunInstance.apply then sets status finished
OutputFinal(r) ==
    /\ lf.pc = "run"
    /\ lf.attempts < MaxAttempts
    /\ ~Retries(lf.script[lf.k], r.rc)
    /\ LET ends == ~ExecuteReturns(lf.script[lf.k], r.rc) \/ lf.k = Len(lf.script) IN
       lf' = [lf EXCEPT !.attempts = 0,
                        !.rcs = Append(@, r.rc),
                        !.wrote = Append(@, r),
                        !.remote = WriteOutput(@, lf.k, r),
                        !.k = IF ends THEN @ ELSE @ + 1,
                        !.pc = IF ends THEN "finished" ELSE @,
                        !.status = IF ends THEN "finished" ELSE @]
    /\ UNCHANGED lfFrame

\* Instance.download: the remote book is copied to the local book; capture
\* opens every command's stdout and raises when one is missing; else status
\* downloaded
OutputDownload ==
    /\ lf.pc = "finished"
    /\ lf' = [lf EXCEPT !.local = lf.remote,
                        !.pc = IF Len(lf.rcs) < Len(lf.script) THEN "raised" ELSE "downloaded",
                        !.status = IF Len(lf.rcs) < Len(lf.script) THEN @ ELSE "downloaded"]
    /\ UNCHANGED lfFrame

\* No instance
NoLogFiles == [pc |-> "off"]

\* ----------------------------------------------------------- typed objects
\* The data handed to a TypedObject: its '_version' entry (0 when it has none)
\* and the upgrades it has gone through, each named by its from_version
ObjectData(tag, ups) == [tag |-> tag, ups |-> ups]

\* A variant of PopVersion that leaves '_version' in the data
PopVersion_Kept(data) == data

\* data.pop('_version', ...): the data without its '_version' entry
PopVersion(data) == ObjectData(0, data.ups)

\* data.pop('_version', cls._version): the entry, or the class's version
VersionOf(data, V) == IF data.tag = 0 THEN V ELSE data.tag

\* upgrade_data(from_version, data) of a class that upgrades its data
UpgradeData(from_version, data) == ObjectData(data.tag, Append(data.ups, from_version))

obFrame == <<caseVars, pipeVars, histVars, scriptVars, fm, cap, df, en, ev, ty, lk, rw, lf, sf, dl, nm>>

\* TypedObject.__init__, line 367, and from_rawdata, line 355: the version is
\* popped from the data
ObjectPop ==
    /\ ob.pc = "start"
    /\ ob' = [ob EXCEPT !.pc = "loop", !.version = VersionOf(ob.data, ob.V),
                        !.data = PopVersion(ob.data)]
    /\ UNCHANGED obFrame

\* One turn of the loop `while version < cls._version`
ObjectUpgrade ==
    /\ ob.pc = "loop"
    /\ ob.version < ob.V
    /\ ob' = [ob EXCEPT !.data = UpgradeData(ob.version, ob.data), !.version = @ + 1]
    /\ UNCHANGED obFrame

\* TypedObject.__init__, line 371: the loop is left and the data goes through
\* Object.coerce_into, so through Object.coerce and from_rawdata
ObjectCoerceInto ==
    /\ ob.pc = "loop"
    /\ ob.stage = "init"
    /\ ob.version >= ob.V
    /\ ob' = [ob EXCEPT !.pc = "start", !.stage = "rawdata"]
    /\ UNCHANGED obFrame

\* from_rawdata, lines 359-361: the loop is left and the object is made
ObjectMade ==
    /\ ob.pc = "loop"
    /\ ob.stage = "rawdata"
    /\ ob.version >= ob.V
    /\ ob' = [ob EXCEPT !.pc = "made"]
    /\ UNCHANGED obFrame

\* TypedObject.to_json: Object.to_json writes the class's version
ObjectToJson ==
    /\ ob.pc = "made"
    /\ ob' = [ob EXCEPT !.pc = "json", !.json = ob.V]
    /\ UNCHANGED obFrame

\* No object
NoObject == [pc |-> "off"]

\* -------------------------------------------------------------- status file
\* The members of Status, in the order of their values in Statuses
StatusNames == <<"Created", "Prepared", "Started", "Finished", "Downloaded">>

\* value.value: the text of a member
StatusValue(m) == Statuses[CHOOSE k \in 1..Len(StatusNames) : StatusNames[k] = m]

\* Status(text): the member with that value
StatusOf(text) == StatusNames[CHOOSE k \in 1..Len(Statuses) : Statuses[k] = text]

\* The Instance objects open on the logdir
Objects == 1..2

\* A variant of Persisted in which the setter keeps the value in memory only
Persisted_CacheOnly(file, m) == file

\* Instance.status setter, lines 65-66: what status.txt holds afterwards
Persisted(file, m) == StatusValue(m)

sfFrame == <<caseVars, pipeVars, histVars, scriptVars, fm, cap, df, en, ev, ty, lk, rw, lf, ob, dl, nm>>

\* Instance.__init__: an object is opened on the logdir, its cache unset
StatusOpen(o) ==
    /\ sf.cache[o] # ""
    /\ sf' = [sf EXCEPT !.cache[o] = ""]
    /\ UNCHANGED sfFrame

\* Instance.status setter: the file is written, then the cache is set
StatusAssign(o, m) ==
    /\ sf' = [sf EXCEPT !.file = Persisted(@, m), !.cache[o] = m,
                        !.last = [op |-> "set", o |-> o, m |-> m, fresh |-> FALSE]]
    /\ UNCHANGED sfFrame

\* Instance.status getter: the file is read when the cache is unset
StatusRead(o) ==
    /\ sf.cache[o] = "" => sf.file # "absent"
    /\ LET m == IF sf.cache[o] = "" THEN StatusOf(sf.file) ELSE sf.cache[o] IN
       sf' = [sf EXCEPT !.cache[o] = m,
                        !.last = [op |-> "get", o |-> o, m |-> m, fresh |-> sf.cache[o] = ""]]
    /\ UNCHANGED sfFrame

\* Instance.status getter with the cache unset and no status.txt: open raises
StatusReadRaises(o) ==
    /\ sf.cache[o] = ""
    /\ sf.file = "absent"
    /\ sf' = [sf EXCEPT !.last = [op |-> "raise", o |-> o, m |-> "", fresh |-> TRUE]]
    /\ UNCHANGED sfFrame

\* No status file
NoStatusFile == [file |-> "off"]

\* ------------------------------------------------------ download and postmap
\* Instance.download, line 131: ignore_missing as handed to postmap.copy
PostmapIgnores(ignore, book) == ignore \/ ~book[1].success

dlFrame == <<caseVars, pipeVars, histVars, scriptVars, fm, cap, df, en, ev, ty, lk, rw, lf, ob, sf, nm>>

\* Instance.download, lines 126-132: the book is copied, the info is read and
\* postmap.copy is called; the value it returns is not used
DownloadPostmap ==
    /\ dl.pc = "finished"
    /\ LET r == FileMapCopy(dl.postmap, dl.remote, PostmapIgnores(dl.ignore_missing, dl.book), {}) IN
       dl' = [dl EXCEPT !.pc = "copied", !.local = r.target, !.copied = r.ok]
    /\ UNCHANGED dlFrame

\* Instance.download, lines 134-138: capture, commit_to_file, status Downloaded
DownloadCommit ==
    /\ dl.pc = "copied"
    /\ ~CaptureRaises(dl.script, dl.book)
    /\ dl' = [dl EXCEPT !.pc = "downloaded", !.status = "downloaded"]
    /\ UNCHANGED dlFrame

\* Instance.download, line 134: capture raises on the stdout of a command that
\* was not executed
DownloadCaptureRaises ==
    /\ dl.pc = "copied"
    /\ CaptureRaises(dl.script, dl.book)
    /\ dl' = [dl EXCEPT !.pc = "raised"]
    /\ UNCHANGED dlFrame

\* No download
NoDownload == [pc |-> "off"]

\* ------------------------------------------------- names of the book files
\* pathlib's Path(exe).name: the last component of the path
PathName(exe) == exe[Len(exe)]

\* CommandTemplate.__init__, lines 161-165: the name given in the case file,
\* or (name "" standing for None) the file name of the executable
CommandName(cmd) == IF cmd.name = "" THEN PathName(cmd.exe) ELSE cmd.name

\* A variant of BookFile with one file per command of the script
BookFile_PerCommand(k, name, kind) == <<name, kind, k>>

\* Command.execute, lines 93-94, and CommandTemplate.capture, line 204: the
\* path f'{self.name}.stdout' (or .stderr) of the k-th command's file in the
\* book-keeping directory
BookFile(k, name, kind) == <<name, kind>>

\* Workspace.write_file: the file at path is created or replaced
WriteFile(files, path, bytes) == {f \in files : f[1] # path} \cup {<<path, bytes>>}

\* Whether the workspace has a file at path, and its bytes
HasFile(files, path) == \E f \in files : f[1] = path

ReadFile(files, path) == (CHOOSE f \in files : f[1] = path)[2]

nmFrame == <<caseVars, pipeVars, histVars, scriptVars, fm, cap, df, en, ev, ty, lk, rw, lf, ob, sf, dl>>

\* Command.execute, lines 86-108, and ScriptTemplate.run: the k-th command has
\* run with result r; its stdout and stderr are written under its name, and a
\* non-zero exit code ends the script
NamesExecute(r) ==
    /\ nm.pc = "run"
    /\ LET name == CommandName(nm.script[nm.k])
           ends == r.rc # 0 \/ nm.k = Len(nm.script) IN
       nm' = [nm EXCEPT !.wrote = Append(@, r),
                        !.remote = WriteFile(WriteFile(@, BookFile(nm.k, name, "stdout"), r.out),
                                             BookFile(nm.k, name, "stderr"), r.err),
                        !.k = IF ends THEN @ ELSE @ + 1,
                        !.pc = IF ends THEN "finished" ELSE @]
    /\ UNCHANGED nmFrame

\* Instance.download, line 129: the book-keeping directory is copied
NamesCopyBook ==
    /\ nm.pc = "finished"
    /\ nm' = [nm EXCEPT !.local = nm.remote, !.pc = "capture", !.k = 1]
    /\ UNCHANGED nmFrame

\* ScriptTemplate.capture, lines 227-229, and CommandTemplate.capture, lines
\* 202-208: the k-th command's captures are applied to the bytes of the file
\* under its name
NamesCapture ==
    /\ nm.pc = "capture"
    /\ HasFile(nm.local, BookFile(nm.k, CommandName(nm.script[nm.k]), "stdout"))
    /\ nm' = [nm EXCEPT !.seen = Append(@, ReadFile(nm.local, BookFile(nm.k, CommandName(nm.script[nm.k]), "stdout"))),
                        !.k = IF nm.k = Len(nm.script) THEN @ ELSE @ + 1,
                        !.pc = IF nm.k = Len(nm.script) THEN "downloaded" ELSE @]
    /\ UNCHANGED nmFrame

\* CommandTemplate.capture, line 204: there is no file under the command's name
NamesCaptureRaises ==
    /\ nm.pc = "capture"
    /\ ~HasFile(nm.local, BookFile(nm.k, CommandName(nm.script[nm.k]), "stdout"))
    /\ nm' = [nm EXCEPT !.pc = "raised"]
    /\ UNCHANGED nmFrame

\* No script
NoNames == [pc |-> "off"]

\* ---------------------------------------------------------------- contexts
\* A dict without keys
EmptyDict == [n \in {} |-> 0]

\* The contexts raw_evaluate is given: values of the parameter a, or none
GivenContexts == {EmptyDict} \cup {[n \in {"a"} |-> v] : v \in 1..2}

\* The constants of a case: a, k, both or none, each with the value 9
ConstantSets == UNION {[S -> {9}] : S \in SUBSET {"a", "k"}}

\* The code of an evaluable: a literal, or an expression that adds one to a name
Codes == [kind : {"lit"}, name : {""}, val : {5}]
             \cup [kind : {"inc"}, name : {"a", "k", "x"}, val : {0}]

\* The evaluables of a case, in the order they are declared, under different names
EvaluableLists ==
    {es \in UNION {[1..n -> [name : {"k", "x", "y"}, code : Codes]] : n \in 0..MaxEvals} :
        \A i, j \in DOMAIN es : es[i].name = es[j].name => i = j}

\* allowed_missing: False, True, or names
AllowedMissing == {[all |-> FALSE, names |-> {}], [all |-> TRUE, names |-> {}],
                   [all |-> FALSE, names |-> {"k"}]}

\* A variant of StartNames in which the constants replace the values given
StartNames_Override(context, constants) ==
    [n \in DOMAIN context \cup DOMAIN constants |->
        IF n \in DOMAIN constants THEN constants[n] ELSE context[n]]

\* raw_evaluate, lines 100-104: the evaluator's names, the context and the
\* constants under the names the context does not have
StartNames(context, constants) ==
    [n \in DOMAIN context \cup DOMAIN constants |->
        IF n \in DOMAIN context THEN context[n] ELSE constants[n]]

\* raw_evaluate, line 113: evaluator.eval(code), or the code itself when it is
\* not a string; a name that is not defined raises NameNotDefined
EvalCode(code, names) ==
    IF code.kind = "lit" THEN [ok |-> TRUE, val |-> code.val, missing |-> ""]
    ELSE IF code.name \in DOMAIN names
         THEN [ok |-> TRUE, val |-> names[code.name] + 1, missing |-> ""]
         ELSE [ok |-> FALSE, val |-> 0, missing |-> code.name]

\* raw_evaluate, lines 115-120: the NameNotDefined is not raised again
Skipped(allowed, missing) == allowed.all \/ missing \in allowed.names

\* raw_evaluate, lines 118-119: the name of a skipped evaluable is allowed missing
AfterSkip(allowed, name) ==
    IF allowed.all THEN allowed ELSE [allowed EXCEPT !.names = @ \cup {name}]

\* raw_evaluate, lines 128-131: the constants under the names the context lacks
AddConstants(context, constants, add_constants) ==
    IF add_constants THEN StartNames(context, constants) ELSE context

\* raw_evaluate, lines 112-126: the loop over the evaluables from the k-th on
RECURSIVE EvaluateFrom(_, _, _, _, _)
EvaluateFrom(context, names, evaluables, k, allowed) ==
    IF k > Len(evaluables) THEN [raised |-> FALSE, context |-> context]
    ELSE LET e == evaluables[k]
             r == EvalCode(e.code, names)
         IN IF r.ok
            THEN EvaluateFrom(SetItem(context, e.name, r.val), SetItem(names, e.name, r.val),
                              evaluables, k + 1, allowed)
            ELSE IF Skipped(allowed, r.missing)
                 THEN EvaluateFrom(context, names, evaluables, k + 1, AfterSkip(allowed, e.name))
                 ELSE [raised |-> TRUE, context |-> context]

\* ContextProvider.raw_evaluate
RawEvaluate(context, constants, evaluables, allowed, add_constants) ==
    LET r == EvaluateFrom(context, StartNames(context, constants), evaluables, 1, allowed)
    IN IF r.raised THEN r
       ELSE [raised |-> FALSE, context |-> AddConstants(r.context, constants, add_constants)]

evFrame == <<caseVars, pipeVars, histVars, scriptVars, fm, cap, df, en, ty, lk, rw, lf, ob, sf, dl, nm>>

\* raw_evaluate, lines 100-109
EvaluateStart ==
    /\ ev.pc = "start"
    /\ ev' = [ev EXCEPT !.pc = "loop", !.names = StartNames(ev.context, ev.constants)]
    /\ UNCHANGED evFrame

\* raw_evaluate, lines 111-126: the next evaluable is evaluated and assigned
EvaluateAssign ==
    /\ ev.pc = "loop"
    /\ ev.k <= Len(ev.evaluables)
    /\ LET e == ev.evaluables[ev.k]
           r == EvalCode(e.code, ev.names)
       IN /\ r.ok
          /\ ev' = [ev EXCEPT !.k = @ + 1,
                              !.names = SetItem(@, e.name, r.val),
                              !.context = SetItem(@, e.name, r.val)]
    /\ UNCHANGED evFrame

\* raw_evaluate, lines 114-120: a name is not defined and may be missing
EvaluateSkip ==
    /\ ev.pc = "loop"
    /\ ev.k <= Len(ev.evaluables)
    /\ LET e == ev.evaluables[ev.k]
           r == EvalCode(e.code, ev.names)
       IN /\ ~r.ok
          /\ Skipped(ev.allowed, r.missing)
          /\ ev' = [ev EXCEPT !.k = @ + 1, !.allowed = AfterSkip(@, e.name)]
    /\ UNCHANGED evFrame

\* raw_evaluate, lines 121-122: a name is not defined and the error is raised
EvaluateRaise ==
    /\ ev.pc = "loop"
    /\ ev.k <= Len(ev.evaluables)
    /\ LET e == ev.evaluables[ev.k]
           r == EvalCode(e.code, ev.names)
       IN /\ ~r.ok
          /\ ~Skipped(ev.allowed, r.missing)
          /\ ev' = [ev EXCEPT !.pc = "raised"]
    /\ UNCHANGED evFrame

\* raw_evaluate, lines 128-133
EvaluateReturn ==
    /\ ev.pc = "loop"
    /\ ev.k > Len(ev.evaluables)
    /\ ev' = [ev EXCEPT !.pc = "done",
                        !.context = AddConstants(@, ev.constants, ev.add_constants)]
    /\ UNCHANGED evFrame

\* raw_evaluate is not called
NoEvaluate == [pc |-> "off"]

\* -------------------------------------------------------------- parameters
\* Parameter: its values, in the order they are listed (the j-th is named j)
Parameter(n) == [v \in 1..n |-> v]

\* ParameterSpace: the parameters, in the order they were inserted
ParameterSpaces == UNION {[1..n -> {Parameter(m) : m \in 1..MaxValues}] : n \in 0..MaxParams}

\* A variant of Extend in which the values of the new pool vary slowest
Extend_PoolMajor(tuples, pool) ==
    [n \in 1..(Len(tuples) * Len(pool)) |->
        Append(tuples[((n - 1) % Len(tuples)) + 1], pool[((n - 1) \div Len(tuples)) + 1])]

\* itertools.product, one pool more: [x + [y] for x in result for y in pool]
Extend(tuples, pool) ==
    [n \in 1..(Len(tuples) * Len(pool)) |->
        Append(tuples[((n - 1) \div Len(pool)) + 1], pool[((n - 1) % Len(pool)) + 1])]

\* itertools.product over the pools from the j-th on, given the tuples so far
RECURSIVE ProductFrom(_, _, _)
ProductFrom(pools, j, tuples) ==
    IF j > Len(pools) THEN tuples
    ELSE ProductFrom(pools, j + 1, Extend(tuples, pools[j]))

\* A variant of DictProduct that starts from no tuple
DictProduct_Empty(pools) == ProductFrom(pools, 1, <<>>)

\* util.dict_product: the tuples of product(*iterables), in its order
DictProduct(pools) == ProductFrom(pools, 1, <<<<>>>>)

\* The names of the parameters, in the order they were inserted
ParamNames == <<"a", "b", "c">>

\* util.dict_product: dict(zip(names, values))
AsDict(values) ==
    [n \in {ParamNames[j] : j \in 1..Len(values)} |->
        values[CHOOSE j \in 1..Len(values) : ParamNames[j] = n]]

\* The evaluables of the cases enumerated: none, a literal and an expression
\* that reads it, or an expression that reads the constant k
CaseEvaluableLists ==
    {<<>>,
     <<[name |-> "x", code |-> [kind |-> "lit", name |-> "", val |-> 5]],
       [name |-> "y", code |-> [kind |-> "inc", name |-> "x", val |-> 0]]>>,
     <<[name |-> "y", code |-> [kind |-> "inc", name |-> "k", val |-> 0]]>>}

\* ParameterSpace.fullspace: subspace over all the names, in insertion order
Fullspace(pools) == DictProduct(pools)

\* The conditions a case can list under where
Conditions == {"increasing", "small"}

\* One condition of where, evaluated in a context
Truthy(cond, values) ==
    IF cond = "increasing"
    THEN \A j \in 1..(Len(values) - 1) : values[j] < values[j + 1]
    ELSE \A j \in 1..Len(values) : values[j] <= 2

\* where: every condition holds
Where(conds, values) == \A c \in conds : Truthy(c, values)

\* A variant of GIndex that numbers the tuples of the product
GIndex_Position(k, nyielded) == k - 1

\* g_index of the context yielded for the k-th tuple, after nyielded others
GIndex(k, nyielded) == nyielded

enFrame == <<caseVars, pipeVars, histVars, scriptVars, fm, cap, df, ev, ty, lk, rw, lf, ob, sf, dl, nm>>

\* ContextProvider.subspace, line 137: evaluate, called on the k-th tuple
Evaluated(k) ==
    RawEvaluate(AsDict(Fullspace(en.pools)[k]), en.constants, en.evaluables,
                [all |-> FALSE, names |-> {}], TRUE)

\* The enumeration takes the next tuple, which passes where: it yields its
\* context with the next g_index
EnumerateYield ==
    /\ en.pc = "next"
    /\ en.k <= Len(Fullspace(en.pools))
    /\ ~Evaluated(en.k).raised
    /\ Where(en.where, Fullspace(en.pools)[en.k])
    /\ en' = [en EXCEPT !.k = @ + 1,
                        !.out = Append(@, [g_index |-> GIndex(en.k, Len(en.out)),
                                           values |-> Fullspace(en.pools)[en.k],
                                           context |-> Evaluated(en.k).context])]
    /\ UNCHANGED enFrame

\* The enumeration takes the next tuple, which fails where: it is skipped
EnumerateSkip ==
    /\ en.pc = "next"
    /\ en.k <= Len(Fullspace(en.pools))
    /\ ~Evaluated(en.k).raised
    /\ ~Where(en.where, Fullspace(en.pools)[en.k])
    /\ en' = [en EXCEPT !.k = @ + 1]
    /\ UNCHANGED enFrame

\* The enumeration takes the next tuple and evaluate raises NameNotDefined
EnumerateRaise ==
    /\ en.pc = "next"
    /\ en.k <= Len(Fullspace(en.pools))
    /\ Evaluated(en.k).raised
    /\ en' = [en EXCEPT !.pc = "raised"]
    /\ UNCHANGED enFrame

\* The product is exhausted
EnumerateEnd ==
    /\ en.pc = "next"
    /\ en.k > Len(Fullspace(en.pools))
    /\ en' = [en EXCEPT !.pc = "done"]
    /\ UNCHANGED enFrame

\* No enumeration
NoEnumeration == [pc |-> "off"]

\* ---------------------------------------------------------------- pipeline
\* A variant of Ncopies in which Run has as many copies as the model allows
Ncopies_Max(s) == IF Pipes[s] = "Run" THEN MaxCopies ELSE 1

\* PipeSegment.__init__ / LocalWorkflow.pipeline: ncopies of each pipe
Ncopies(s) == IF Pipes[s] = "Run" THEN nprocs ELSE 1

\* PipeSegment.create_tasks: one task per copy of each pipe
Workers == {w \in (1..NPipes) \X (1..MaxCopies) : w[2] <= Ncopies(w[1])}

NewTask == [pc |-> "get", arg |-> 0, cancel |-> FALSE]

\* A variant of QueueMaxsize with room for two items
QueueMaxsize_Two == 1 + 1

\* Pipeline.work, line 103: asyncio.Queue(maxsize=1) between two pipes
QueueMaxsize == 1

\* A variant of Dequeue in which get leaves the item in the queue
Dequeue_Peek(q) == q

\* asyncio.Queue.get: the item leaves the queue
Dequeue(q) == Tail(q)

\* A variant of PrepareAssert in which Instance.prepare accepts any status
PrepareAssert_Any(st) == TRUE

\* Instance.prepare: assert self.status == Status.Created
PrepareAssert(st) == st = "created"

\* Instance.download: assert self.status == Status.Finished
DownloadAssert(st) == st = "finished"

\* Instance.create: obj.status = Status.Created, whatever was stored before
CreateStatus(old) == "created"

\* No such file
NoBook == <<>>

\* What a finished script leaves in the remote book-keeping directory:
\* g_success in grevling.txt and one <name>.stdout per executed command
Book(o, run) == <<[success |-> o.success, nexec |-> o.nexec, run |-> run]>>

\* Instance.download raises: an assertion, grevling.txt missing, or a
\* command's stdout missing in ScriptTemplate.capture
DownloadRaises(scr, st, book) ==
    \/ ~DownloadAssert(st)
    \/ book = NoBook
    \/ CaptureRaises(scr, book)

Events(i, evs) == [log EXCEPT ![i] = @ \o evs]

\* A variant of Taken in which the task takes the item put last
Taken_Last(w) == queues[w[1]][Len(queues[w[1]])]

\* PipeSegment.work, line 61: the task of pipe `name` takes the next item;
\* apply is called on it before the task awaits anything else
Get(w, name) ==
    /\ mainpc \in {"join", "gather"}
    /\ Pipes[w[1]] = name
    /\ tasks[w].pc = "get"
    /\ ~tasks[w].cancel
    /\ queues[w[1]] # <<>>
    /\ queues' = [queues EXCEPT ![w[1]] = Dequeue(@)]

Taken(w) == Head(queues[w[1]])

\* A variant of WorkExcept in which the except branch also counts the item
WorkExcept_Counted(w, i, evs) ==
    /\ unfinished' = [unfinished EXCEPT ![w[1]] = @ - 1]
    /\ npiped' = [npiped EXCEPT ![w[1]] = @ + 1]
    /\ tasks' = [tasks EXCEPT ![w] = [@ EXCEPT !.pc = "get", !.arg = 0]]
    /\ log' = Events(i, evs)

\* A variant of WorkExcept in which the except branch does not call task_done
WorkExcept_NoTaskDone(w, i, evs) ==
    /\ tasks' = [tasks EXCEPT ![w] = [@ EXCEPT !.pc = "get", !.arg = 0]]
    /\ log' = Events(i, evs)
    /\ UNCHANGED <<unfinished, npiped>>

\* PipeSegment.work, lines 68-74: apply raised on item i
WorkExcept(w, i, evs) ==
    /\ unfinished' = [unfinished EXCEPT ![w[1]] = @ - 1]
    /\ tasks' = [tasks EXCEPT ![w] = [@ EXCEPT !.pc = "get", !.arg = 0]]
    /\ log' = Events(i, evs)
    /\ UNCHANGED npiped

\* A variant of WorkReturned in which the last pipe marks the item done
\* without counting it
WorkReturned_Uncounted(w, i, evs) ==
    IF w[1] = NPipes
    THEN /\ unfinished' = [unfinished EXCEPT ![w[1]] = @ - 1]
         /\ tasks' = [tasks EXCEPT ![w] = [@ EXCEPT !.pc = "get", !.arg = 0]]
         /\ log' = Events(i, evs \o <<<<w[1], "piped">>>>)
         /\ UNCHANGED npiped
    ELSE /\ tasks' = [tasks EXCEPT ![w] = [@ EXCEPT !.pc = "put", !.arg = i]]
         /\ log' = Events(i, evs)
         /\ UNCHANGED <<unfinished, npiped>>

\* PipeSegment.work, lines 63-67: apply returned item i. With no out_queue (the
\* last pipe) the item is counted and done; otherwise it waits to be put
WorkReturned(w, i, evs) ==
    IF w[1] = NPipes
    THEN /\ npiped' = [npiped EXCEPT ![w[1]] = @ + 1]
         /\ unfinished' = [unfinished EXCEPT ![w[1]] = @ - 1]
         /\ tasks' = [tasks EXCEPT ![w] = [@ EXCEPT !.pc = "get", !.arg = 0]]
         /\ log' = Events(i, evs \o <<<<w[1], "piped">>>>)
    ELSE /\ tasks' = [tasks EXCEPT ![w] = [@ EXCEPT !.pc = "put", !.arg = i]]
         /\ log' = Events(i, evs)
         /\ UNCHANGED <<unfinished, npiped>>

\* PipeSegment.work, lines 65-67: out_queue.put completes, then npiped and task_done
Put(w) ==
    /\ tasks[w].pc = "put"
    /\ ~tasks[w].cancel
    /\ w[1] < NPipes
    /\ Len(queues[w[1] + 1]) < QueueMaxsize
    /\ queues' = [queues EXCEPT ![w[1] + 1] = Append(@, tasks[w].arg)]
    /\ unfinished' = [unfinished EXCEPT ![w[1] + 1] = @ + 1, ![w[1]] = @ - 1]
    /\ npiped' = [npiped EXCEPT ![w[1]] = @ + 1]
    /\ tasks' = [tasks EXCEPT ![w] = [@ EXCEPT !.pc = "get", !.arg = 0]]
    /\ log' = Events(tasks[w].arg, <<<<w[1], "piped">>>>)
    /\ UNCHANGED <<caseVars, nprocs, mainpc, joinIdx, ninputs, success, scriptVars, extVars>>

pipeFrame == <<nprocs, mainpc, joinIdx, ninputs, success, scriptVars, script, ninst,
               premap, srcfiles, ignore_missing, extVars>>

\* PrepareInstance.apply: bind_remote, Instance.prepare, return
PrepareOk(w) ==
    /\ Get(w, "Prepare")
    /\ LET i == Taken(w) IN
        /\ PrepareAssert(status[i])
        /\ remote' = [remote EXCEPT ![i] = TRUE]
        /\ wfiles' = [wfiles EXCEPT ![i] = FileMapCopy(premap, srcfiles, ignore_missing, @).target]
        /\ status' = [status EXCEPT ![i] = "prepared"]
        /\ WorkReturned(w, i, <<<<w[1], "begin">>, <<w[1], "return">>>>)
    /\ UNCHANGED <<captured, lbook, rbook, pipeFrame>>

\* PrepareInstance.apply: the assertion of Instance.prepare fails
PrepareAssertFails(w) ==
    /\ Get(w, "Prepare")
    /\ LET i == Taken(w) IN
        /\ ~PrepareAssert(status[i])
        /\ remote' = [remote EXCEPT ![i] = TRUE]
        /\ WorkExcept(w, i, <<<<w[1], "begin">>, <<w[1], "raise">>>>)
    /\ UNCHANGED <<status, captured, lbook, rbook, wfiles, pipeFrame>>

\* PrepareInstance.apply: the file mapping raises (an I/O or rendering error)
PrepareFault(w) ==
    /\ Get(w, "Prepare")
    /\ LET i == Taken(w) IN
        /\ PrepareAssert(status[i])
        /\ remote' = [remote EXCEPT ![i] = TRUE]
        /\ WorkExcept(w, i, <<<<w[1], "begin">>, <<w[1], "fault">>>>)
    /\ UNCHANGED <<status, captured, lbook, rbook, wfiles, pipeFrame>>

\* A variant of StatusInRun in which the status is written only at the end
StatusInRun_Unchanged(st) == st

\* RunInstance.apply, line 32: the status written before the script is awaited
StatusInRun(st) == "started"

\* RunInstance.apply, lines 32-35: status Started, then the script is awaited
RunBegin(w) ==
    /\ Get(w, "Run")
    /\ LET i == Taken(w) IN
        /\ status' = [status EXCEPT ![i] = StatusInRun(@)]
        /\ remote' = [remote EXCEPT ![i] = TRUE]
        /\ tasks' = [tasks EXCEPT ![w] = [@ EXCEPT !.pc = "running", !.arg = i]]
        /\ log' = Events(i, <<<<w[1], "begin">>>>)
    /\ UNCHANGED <<unfinished, npiped>>
    /\ UNCHANGED <<captured, lbook, rbook, wfiles, pipeFrame>>

\* RunInstance.apply, lines 35-37: the script has run, whatever its result
RunEnd(w, o) ==
    /\ tasks[w].pc = "running"
    /\ ~tasks[w].cancel
    /\ LET i == tasks[w].arg IN
        /\ rbook' = [rbook EXCEPT ![i] = Book(o, 1)]
        /\ status' = [status EXCEPT ![i] = "finished"]
        /\ WorkReturned(w, i, <<<<w[1], "return">>>>)
    /\ UNCHANGED <<queues, captured, lbook, remote, wfiles, pipeFrame>>

\* RunInstance.apply: the awaited script raises (a command cannot be started)
RunFault(w) ==
    /\ tasks[w].pc = "running"
    /\ ~tasks[w].cancel
    /\ WorkExcept(w, tasks[w].arg, <<<<w[1], "fault">>>>)
    /\ UNCHANGED <<queues, status, captured, lbook, remote, rbook, wfiles, pipeFrame>>

\* A variant of RemoteAfterDownload in which the workspace is destroyed whatever
\* download did
RemoteAfterDownload_Always(raised) == FALSE

\* DownloadResults.apply, lines 147-149: whether the remote workspace, which
\* bind_remote has opened, still exists when apply ends; destroy_workspace is
\* reached only when the with block ends without an exception
RemoteAfterDownload(raised) == raised

\* DownloadResults.apply: Instance.download, then destroy_workspace
DownloadOk(w) ==
    /\ Get(w, "Download")
    /\ LET i == Taken(w) IN
        /\ ~DownloadRaises(script, status[i], rbook[i])
        /\ lbook' = [lbook EXCEPT ![i] = rbook[i]]
        /\ captured' = [captured EXCEPT ![i] = rbook[i]]
        /\ status' = [status EXCEPT ![i] = "downloaded"]
        /\ remote' = [remote EXCEPT ![i] = RemoteAfterDownload(FALSE)]
        /\ wfiles' = [wfiles EXCEPT ![i] = {}]
        /\ rbook' = [rbook EXCEPT ![i] = NoBook]
        /\ WorkReturned(w, i, <<<<w[1], "begin">>, <<w[1], "return">>>>)
    /\ UNCHANGED pipeFrame

\* DownloadResults.apply: Instance.download raises; what it copied stays
DownloadRaise(w) ==
    /\ Get(w, "Download")
    /\ LET i == Taken(w) IN
        /\ DownloadRaises(script, status[i], rbook[i])
        /\ remote' = [remote EXCEPT ![i] = RemoteAfterDownload(TRUE)]
        /\ lbook' = IF DownloadAssert(status[i]) /\ rbook[i] # NoBook
                    THEN [lbook EXCEPT ![i] = rbook[i]] ELSE lbook
        /\ WorkExcept(w, i, <<<<w[1], "begin">>, <<w[1], "raise">>>>)
    /\ UNCHANGED <<status, captured, rbook, wfiles, pipeFrame>>

\* DownloadResults.apply: copying the book-keeping directory raises (I/O error)
DownloadFault(w) ==
    /\ Get(w, "Download")
    /\ LET i == Taken(w) IN
        /\ ~DownloadRaises(script, status[i], rbook[i])
        /\ remote' = [remote EXCEPT ![i] = RemoteAfterDownload(TRUE)]
        /\ WorkExcept(w, i, <<<<w[1], "begin">>, <<w[1], "fault">>>>)
    /\ UNCHANGED <<status, captured, lbook, rbook, wfiles, pipeFrame>>

\* A variant of CancelledAt in which only a task waiting for its next item
\* ends quietly, and the cancellation of one that holds an item escapes work
CancelledAt_Escapes(pc) == IF pc \in {"get", "exited"} THEN "exited" ELSE "raised"

\* PipeSegment.work, lines 59-76: where a cancelled task ends. CancelledError
\* is raised at the await the task is suspended in (get, apply or put); it is
\* not an Exception, so the inner handler lets it pass, and the outer one
\* swallows it: the coroutine returns
CancelledAt(pc) == "exited"

\* PipeSegment.work, lines 75-76: the cancelled tasks of pipe s end at their await
TasksExit(s) ==
    /\ \E w \in DOMAIN tasks : w[1] = s /\ tasks[w].pc # "exited"
    /\ \A w \in DOMAIN tasks :
        w[1] = s => tasks[w].cancel /\ tasks[w].pc \in {"get", "put", "running", "exited"}
    /\ tasks' = [w \in DOMAIN tasks |->
                    IF w[1] = s THEN [tasks[w] EXCEPT !.pc = CancelledAt(@)] ELSE tasks[w]]
    /\ UNCHANGED <<queues, unfinished, npiped, log>>
    /\ UNCHANGED <<caseVars, nprocs, mainpc, joinIdx, ninputs, success, scriptVars, extVars>>

\* A variant of InfoKeys that reads the g_success line only
InfoKeys_SuccessOnly(book) == {<<"g_success", 0>>}

\* collect_from_info: the keys of the lines of grevling.txt, g_success and
\* g_walltime_<name> for the k-th command of the script, for each one executed
InfoKeys(book) == {<<"g_success", 0>>} \cup {<<"g_walltime", k>> : k \in 1..book.nexec}

\* commit_to_file: the keys of captured.json, those the collector holds
CapturedKeys(file) == IF file = NoBook THEN {} ELSE InfoKeys(file[1])

\* --------------------------------------------------------------- dataframe
\* Case.load_dataframe without a dataframe file: no rows
NoDataframe == [data |-> <<>>, ncollect |-> 0]

\* A variant of InstanceDirs that leaves out the instances whose script failed
InstanceDirs_Succeeded(cpt) == {i \in DOMAIN cpt : cpt[i] # NoBook /\ cpt[i][1].success}

\* Case.iter_instancedirs: the instance directories that hold the file the
\* collector commits to (the instance of g_index i is instance i)
InstanceDirs(cpt) == {i \in DOMAIN cpt : cpt[i] # NoBook}

\* collect_from_file: the row of an instance, from the file
RowOf(cpt, i) == [index |-> i, values |-> cpt[i][1]]

\* A variant of CommitToDataframe that always adds a row
CommitToDataframe_Append(data, row) == Append(data, row)

\* commit_to_dataframe: data.loc[index, :] is reset and filled, which replaces
\* the rows of that index, or adds one after the last row when there is none
CommitToDataframe(data, row) ==
    IF \E k \in 1..Len(data) : data[k].index = row.index
    THEN [k \in 1..Len(data) |-> IF data[k].index = row.index THEN row ELSE data[k]]
    ELSE Append(data, row)

\* DataFrame.sort_index over the indices lo..hi: the rows by index, rows of
\* one index in the order they had
RECURSIVE SortIndexFrom(_, _, _)
SortIndexFrom(data, lo, hi) ==
    IF lo > hi THEN <<>>
    ELSE SelectSeq(data, LAMBDA r : r.index = lo) \o SortIndexFrom(data, lo + 1, hi)

SortIndex(data) == SortIndexFrom(data, 1, MaxItems)

\* The orders in which iterdir can list a set of directories
Orders(dirs) ==
    {o \in [1..Cardinality(dirs) -> dirs] : \A a, b \in DOMAIN o : o[a] = o[b] => a = b}

\* Case.collect, lines 578-581: the loop over the directories, from the k-th on
RECURSIVE CollectFrom(_, _, _, _)
CollectFrom(data, cpt, order, k) ==
    IF k > Len(order) THEN data
    ELSE CollectFrom(CommitToDataframe(data, RowOf(cpt, order[k])), cpt, order, k + 1)

\* Case.collect, lines 577-582: the table it saves
CollectAll(data, cpt, order) == SortIndex(CollectFrom(data, cpt, order, 1))

dfFrame == <<caseVars, pipeVars, histVars, scriptVars, fm, cap, en, ev, ty, lk, rw, lf, ob, sf, dl, nm>>

\* The storage lock is free: no run is under way
Unlocked == mainpc \in {"start", "done"}

\* Case.collect
CaseCollect ==
    /\ Unlocked
    /\ df.ncollect < MaxCollects
    /\ \E order \in Orders(InstanceDirs(captured)) :
        df' = [data |-> CollectAll(df.data, captured, order), ncollect |-> df.ncollect + 1]
    /\ UNCHANGED dfFrame

\* Case.clear_dataframe
ClearDataframe ==
    /\ Unlocked
    /\ df.data # <<>>
    /\ df' = [df EXCEPT !.data = <<>>]
    /\ UNCHANGED dfFrame

\* command run: Case.clear_cache removes the storage directory, and the
\* dataframe file in it
ClearCache ==
    /\ mainpc = "clear"
    /\ status' = [i \in Items |-> "absent"]
    /\ captured' = [i \in Items |-> NoBook]
    /\ lbook' = [i \in Items |-> NoBook]
    /\ df' = NoDataframe
    /\ mainpc' = "create"
    /\ UNCHANGED <<script, ninst, remote, rbook, premap, srcfiles, ignore_missing, wfiles>>
    /\ UNCHANGED <<nprocs, joinIdx, ninputs, queues, unfinished, npiped, tasks, success>>
    /\ UNCHANGED <<log, scriptVars, fm, cap, en, ev, ty, lk, rw, lf, ob, sf, dl, nm>>

\* command run: create_instances calls Instance.create for every context
CreateInstances ==
    /\ mainpc = "create"
    /\ status' = [i \in Items |-> CreateStatus(status[i])]
    /\ mainpc' = "start"
    /\ UNCHANGED <<script, ninst, captured, lbook, remote, rbook>>
    /\ UNCHANGED <<premap, srcfiles, ignore_missing, wfiles>>
    /\ UNCHANGED <<nprocs, joinIdx, ninputs, queues, unfinished, npiped, tasks, success>>
    /\ UNCHANGED <<log, scriptVars, extVars>>

\* Pipeline._run, lines 93-95, and Pipeline.work, lines 102-108
PipelineStart ==
    /\ mainpc = "start"
    /\ queues' = [queues EXCEPT ![1] = [i \in Items |-> i]]
    /\ ninputs' = ninst
    /\ unfinished' = [unfinished EXCEPT ![1] = ninst]
    /\ tasks' = [w \in Workers |-> NewTask]
    /\ joinIdx' = 1
    /\ mainpc' = "join"
    /\ UNCHANGED <<npiped, nprocs, success>>
    /\ UNCHANGED <<caseVars, log, scriptVars, extVars>>

\* A variant of Joined in which join returns as soon as the queue is empty
Joined_Empty(s) == queues[s] = <<>>

\* Pipeline.work, line 111: asyncio.Queue.join returns when every item that
\* was put on the queue has been marked done
Joined(s) == unfinished[s] = 0

\* Pipeline.work, lines 110-113: queue.join() returns, the pipe's tasks are cancelled
JoinClose ==
    /\ mainpc = "join"
    /\ Joined(joinIdx)
    /\ tasks' = [w \in DOMAIN tasks |->
                    IF w[1] = joinIdx THEN [tasks[w] EXCEPT !.cancel = TRUE] ELSE tasks[w]]
    /\ IF joinIdx = NPipes
       THEN mainpc' = "gather" /\ UNCHANGED joinIdx
       ELSE joinIdx' = joinIdx + 1 /\ UNCHANGED mainpc
    /\ UNCHANGED <<nprocs, ninputs, queues, unfinished, npiped, success>>
    /\ UNCHANGED <<caseVars, log, scriptVars, extVars>>

\* Pipe.run, lines 20-21: asyncio.run is interrupted while Pipeline.work waits
\* in join or gather; the main task is cancelled and asyncio.run cancels every
\* task that is left
OuterCancel ==
    /\ mainpc \in {"join", "gather"}
    /\ mainpc' = "cancelled"
    /\ tasks' = [w \in DOMAIN tasks |-> [tasks[w] EXCEPT !.cancel = TRUE]]
    /\ UNCHANGED <<nprocs, joinIdx, ninputs, queues, unfinished, npiped, success>>
    /\ UNCHANGED <<caseVars, log, scriptVars, extVars>>

\* A variant of FinalSuccess that compares the first pipe's count
FinalSuccess_FirstPipe(n, nin) == n[1] = nin

\* Pipeline._run, line 96
FinalSuccess(n, nin) == n[NPipes] = nin

\* Pipeline.work, line 115, and Pipeline._run, lines 96-99
Gather ==
    /\ mainpc = "gather"
    /\ \A w \in DOMAIN tasks : tasks[w].pc = "exited"
    /\ success' = FinalSuccess(npiped, ninputs)
    /\ mainpc' = "done"
    /\ UNCHANGED <<nprocs, joinIdx, ninputs, queues, unfinished, npiped, tasks>>
    /\ UNCHANGED <<caseVars, log, scriptVars, extVars>>

ScriptIdle ==
    /\ spc = "idle"
    /\ cmdIdx = 0
    /\ attempts = 0
    /\ stdout = {}
    /\ collector = {}
    /\ result = FALSE
    /\ attemptLog = <<>>
    /\ returns = <<>>

\* No instances and no pipeline: the state of the operations modelled on their own
PipelineOff ==
    /\ ninst = 0
    /\ status = <<>>
    /\ captured = <<>>
    /\ lbook = <<>>
    /\ remote = <<>>
    /\ rbook = <<>>
    /\ wfiles = <<>>
    /\ nprocs = 1
    /\ mainpc = "off"
    /\ joinIdx = 0
    /\ ninputs = 0
    /\ queues = [s \in 1..NPipes |-> <<>>]
    /\ unfinished = [s \in 1..NPipes |-> 0]
    /\ npiped = [s \in 1..NPipes |-> 0]
    /\ tasks = <<>>
    /\ success = FALSE
    /\ log = <<>>

\* A case with no file map
NoPremap ==
    /\ premap = <<>>
    /\ srcfiles = {}
    /\ ignore_missing = FALSE

\* None of the operations modelled on their own has started
ExtIdle ==
    /\ fm = FileMapIdle
    /\ cap = NoCapture
    /\ df = NoDataframe
    /\ en = NoEnumeration
    /\ ev = NoEvaluate
    /\ ty = NoTyping
    /\ lk = NoLock
    /\ rw = NoWorkspaces
    /\ lf = NoLogFiles
    /\ ob = NoObject
    /\ sf = NoStatusFile
    /\ dl = NoDownload
    /\ nm = NoNames

\* The state in which ScriptTemplate.run is about to be called on a script
InitScript ==
    /\ script \in Scripts
    /\ ScriptIdle
    /\ PipelineOff
    /\ NoPremap
    /\ ExtIdle

\* The state in which FileMap.copy is about to be called on a file map, with
\* some of the files it names present in the source workspace
InitFileMap ==
    /\ premap \in FileMaps
    /\ srcfiles \in SUBSET Files
    /\ ignore_missing \in BOOLEAN
    /\ script = <<>>
    /\ ScriptIdle
    /\ PipelineOff
    /\ fm = FileMapIdle
    /\ cap = NoCapture
    /\ df = NoDataframe
    /\ en = NoEnumeration
    /\ ev = NoEvaluate
    /\ ty = NoTyping
    /\ lk = NoLock
    /\ rw = NoWorkspaces
    /\ lf = NoLogFiles
    /\ ob = NoObject
    /\ sf = NoStatusFile
    /\ dl = NoDownload
    /\ nm = NoNames

\* A downloaded instance, for every capture and every stdout of its command
InitCapture ==
    /\ cap \in UNION {{Downloaded(c, ms) : ms \in Stdouts(c)} : c \in Captures}
    /\ fm = FileMapIdle
    /\ df = NoDataframe
    /\ en = NoEnumeration
    /\ ev = NoEvaluate
    /\ ty = NoTyping
    /\ lk = NoLock
    /\ rw = NoWorkspaces
    /\ lf = NoLogFiles
    /\ ob = NoObject
    /\ sf = NoStatusFile
    /\ dl = NoDownload
    /\ nm = NoNames
    /\ script = <<>>
    /\ ScriptIdle
    /\ PipelineOff
    /\ NoPremap

\* The script of the case the pipeline runs: two plain commands, as in
\* tests/test_run.py test_failing, where the first failure ends the script
CaseScript == <<Cmd(FALSE, FALSE), Cmd(FALSE, FALSE)>>

\* The file map of the case the pipeline runs, and its source directory
CasePremap == <<[mode |-> "simple", source |-> 1]>>

CaseFiles == {1}

\* What an earlier, completed run left for an instance it downloaded
OldBook(scr) == <<[success |-> TRUE, nexec |-> Len(scr), run |-> 0]>>

\* The pipeline part of the initial state: storage an earlier run left, given
\* the number of instances, their statuses, nprocs and the entry point
InitPipeline ==
    /\ captured = [i \in 1..ninst |-> IF status[i] = "downloaded" THEN OldBook(script) ELSE NoBook]
    /\ lbook = captured
    /\ remote = [i \in 1..ninst |-> FALSE]
    /\ rbook = [i \in 1..ninst |-> NoBook]
    /\ wfiles = [i \in 1..ninst |-> {}]
    /\ joinIdx = 0
    /\ ninputs = 0
    /\ queues = [s \in 1..NPipes |-> <<>>]
    /\ unfinished = [s \in 1..NPipes |-> 0]
    /\ npiped = [s \in 1..NPipes |-> 0]
    /\ tasks = <<>>
    /\ success = FALSE
    /\ log = [i \in 1..ninst |-> <<>>]

\* The storage an earlier (possibly interrupted) run left, a constructed
\* pipeline, and either the command run or Pipeline.run about to start
Init ==
    /\ ninst \in 0..MaxItems
    /\ script = CaseScript
    /\ nprocs \in 1..MaxCopies
    /\ mainpc \in {"clear", "start"}
    /\ status \in [1..ninst -> StatusSet]
    /\ premap = CasePremap
    /\ srcfiles = CaseFiles
    /\ ignore_missing = FALSE
    /\ InitPipeline
    /\ ScriptIdle
    /\ ExtIdle

\* The same with one instance at most and one Run worker, for every file map
\* of one entry at most and every content of the source directory
InitPremap ==
    /\ ninst \in 0..1
    /\ script = CaseScript
    /\ nprocs = 1
    /\ mainpc \in {"clear", "start"}
    /\ status \in [1..ninst -> {"created", "finished"}]
    /\ premap \in {m \in FileMaps : Len(m) <= 1}
    /\ srcfiles \in SUBSET Files
    /\ ignore_missing \in BOOLEAN
    /\ InitPipeline
    /\ ScriptIdle
    /\ ExtIdle

Next ==
    \/ ClearCache
    \/ CreateInstances
    \/ PipelineStart
    \/ JoinClose
    \/ Gather
    \/ \E w \in DOMAIN tasks : PrepareOk(w)
    \/ \E w \in DOMAIN tasks : PrepareAssertFails(w)
    \/ \E w \in DOMAIN tasks : PrepareFault(w)
    \/ \E w \in DOMAIN tasks : RunBegin(w)
    \/ \E w \in DOMAIN tasks : \E o \in ScriptOutcomes(script) : RunEnd(w, o)
    \/ \E w \in DOMAIN tasks : RunFault(w)
    \/ \E w \in DOMAIN tasks : DownloadOk(w)
    \/ \E w \in DOMAIN tasks : DownloadRaise(w)
    \/ \E w \in DOMAIN tasks : DownloadFault(w)
    \/ \E w \in DOMAIN tasks : Put(w)
    \/ \E s \in 1..NPipes : TasksExit(s)

Spec == Init /\ [][Next]_vars

FairSpec == Spec /\ WF_vars(Next)

\* The pipeline with an interrupt from outside at any moment of its run
NextCancel == Next \/ OuterCancel

SpecCancel == Init /\ [][NextCancel]_vars

\* asyncio.run runs the loop until every cancelled task has ended
FairSpecCancel == SpecCancel /\ WF_vars(\E s \in 1..NPipes : TasksExit(s))

NextScript ==
    \/ ScriptStart
    \/ \E rc \in ExitCodes : AttemptRetry(rc)
    \/ \E rc \in ExitCodes : AttemptFinal(rc)

SpecScript == InitScript /\ [][NextScript]_vars

SpecPremap == InitPremap /\ [][Next]_vars

NextFileMap ==
    \/ FileMapStart
    \/ FileMapElement

SpecFileMap == InitFileMap /\ [][NextFileMap]_vars

NextCapture ==
    \/ CaptureStart
    \/ CaptureFindIn
    \/ CaptureCommit

SpecCapture == InitCapture /\ [][NextCapture]_vars

\* An enumeration about to start, for every parameter space, where and constants
InitEnumerate ==
    /\ en \in [pc : {"next"}, pools : ParameterSpaces, where : SUBSET Conditions,
               constants : ConstantSets, evaluables : CaseEvaluableLists,
               k : {1}, out : {<<>>}]
    /\ fm = FileMapIdle
    /\ cap = NoCapture
    /\ df = NoDataframe
    /\ ev = NoEvaluate
    /\ ty = NoTyping
    /\ lk = NoLock
    /\ rw = NoWorkspaces
    /\ lf = NoLogFiles
    /\ ob = NoObject
    /\ sf = NoStatusFile
    /\ dl = NoDownload
    /\ nm = NoNames
    /\ script = <<>>
    /\ ScriptIdle
    /\ PipelineOff
    /\ NoPremap

NextEnumerate ==
    \/ EnumerateYield
    \/ EnumerateSkip
    \/ EnumerateRaise
    \/ EnumerateEnd

SpecEnumerate == InitEnumerate /\ [][NextEnumerate]_vars

\* A call of raw_evaluate, for every context, constants, evaluables and flags
InitEvaluate ==
    /\ ev \in [pc : {"start"}, given : GivenContexts, context : GivenContexts,
               constants : ConstantSets, evaluables : EvaluableLists, names : {EmptyDict},
               allowed : AllowedMissing, add_constants : BOOLEAN, k : {1}]
    /\ ev.context = ev.given
    /\ fm = FileMapIdle
    /\ cap = NoCapture
    /\ df = NoDataframe
    /\ en = NoEnumeration
    /\ ty = NoTyping
    /\ lk = NoLock
    /\ rw = NoWorkspaces
    /\ lf = NoLogFiles
    /\ ob = NoObject
    /\ sf = NoStatusFile
    /\ dl = NoDownload
    /\ nm = NoNames
    /\ script = <<>>
    /\ ScriptIdle
    /\ PipelineOff
    /\ NoPremap

NextEvaluate ==
    \/ EvaluateStart
    \/ EvaluateAssign
    \/ EvaluateSkip
    \/ EvaluateRaise
    \/ EvaluateReturn

SpecEvaluate == InitEvaluate /\ [][NextEvaluate]_vars

\* What coerce_into finds under the name: nothing, a scalar, or a list
ExistingValues ==
    {None, IntValue(1), ListValue(<<>>), ListValue(<<IntValue(2)>>),
     ListValue(<<IntValue(2), StrValue("1")>>)}

\* A type, a value to coerce and what exists under the name
InitTyping ==
    /\ ty \in [pc : {"start"}, type : Types, value : ScalarValues \cup ListValues,
               existing : ExistingValues, coerced : {None}, encoded : {None},
               decoded : {Raises}, into : {Raises}]
    /\ fm = FileMapIdle
    /\ cap = NoCapture
    /\ df = NoDataframe
    /\ en = NoEnumeration
    /\ ev = NoEvaluate
    /\ lk = NoLock
    /\ rw = NoWorkspaces
    /\ lf = NoLogFiles
    /\ ob = NoObject
    /\ sf = NoStatusFile
    /\ dl = NoDownload
    /\ nm = NoNames
    /\ script = <<>>
    /\ ScriptIdle
    /\ PipelineOff
    /\ NoPremap

NextTyping ==
    \/ TypingCoerce
    \/ TypingCoerceRaises
    \/ TypingToJson
    \/ TypingDecode
    \/ TypingCoerceInto

SpecTyping == InitTyping /\ [][NextTyping]_vars

\* Two processes on a storage root with some instances, the lock file free
InitLock ==
    /\ lk \in [n : 1..MaxItems, holder : {0}, op : [Procs -> {"idle"}], at : [Procs -> {0}]]
    /\ fm = FileMapIdle
    /\ cap = NoCapture
    /\ df = NoDataframe
    /\ en = NoEnumeration
    /\ ev = NoEvaluate
    /\ ty = NoTyping
    /\ rw = NoWorkspaces
    /\ lf = NoLogFiles
    /\ ob = NoObject
    /\ sf = NoStatusFile
    /\ dl = NoDownload
    /\ nm = NoNames
    /\ script = <<>>
    /\ ScriptIdle
    /\ PipelineOff
    /\ NoPremap

NextLock ==
    \/ \E p \in Procs, o \in CaseOperations : CaseEnter(p, o)
    \/ \E p \in Procs : CaseStep(p)
    \/ \E p \in Procs : CaseLeave(p)

SpecLock == InitLock /\ [][NextLock]_vars

\* The instances of a case with parameters a and b: distinct parameter tuples,
\* g_index counting from 0, any of the logdir templates
InitWorkspaces ==
    /\ \E n \in 1..MaxItems, tpl \in LogdirTemplates :
       \E ps \in [1..n -> [a : 0..1, b : 0..1]] :
           /\ \A i, j \in 1..n : ps[i] = ps[j] => i = j
           /\ rw = [n |-> n,
                    template |-> tpl,
                    context |-> [i \in 1..n |-> [g_index |-> i - 1, a |-> ps[i].a, b |-> ps[i].b]],
                    stage |-> [i \in 1..n |-> "created"],
                    remote |-> [i \in 1..n |-> ""],
                    opened |-> [i \in 1..n |-> {}],
                    dirs |-> {}]
    /\ fm = FileMapIdle
    /\ cap = NoCapture
    /\ df = NoDataframe
    /\ en = NoEnumeration
    /\ ev = NoEvaluate
    /\ ty = NoTyping
    /\ lk = NoLock
    /\ lf = NoLogFiles
    /\ ob = NoObject
    /\ sf = NoStatusFile
    /\ dl = NoDownload
    /\ nm = NoNames
    /\ script = <<>>
    /\ ScriptIdle
    /\ PipelineOff
    /\ NoPremap

NextWorkspaces ==
    \/ \E i \in 1..rw.n : OpenWorkspace(i)
    \/ \E i \in 1..rw.n : UnbindRemote(i)
    \/ \E i \in 1..rw.n : DestroyWorkspace(i)

SpecWorkspaces == InitWorkspaces /\ [][NextWorkspaces]_vars

\* An instance whose script is about to run, its books without output files
InitOutput ==
    /\ lf \in [pc : {"run"}, script : Scripts \ {<<>>}, k : {1}, attempts : {0},
               rcs : {<<>>}, wrote : {<<>>}, remote : {{}}, local : {{}},
               status : {"started"}]
    /\ fm = FileMapIdle
    /\ cap = NoCapture
    /\ df = NoDataframe
    /\ en = NoEnumeration
    /\ ev = NoEvaluate
    /\ ty = NoTyping
    /\ lk = NoLock
    /\ rw = NoWorkspaces
    /\ ob = NoObject
    /\ sf = NoStatusFile
    /\ dl = NoDownload
    /\ nm = NoNames
    /\ script = <<>>
    /\ ScriptIdle
    /\ PipelineOff
    /\ NoPremap

NextOutput ==
    \/ \E r \in AttemptResults : OutputRetry(r)
    \/ \E r \in AttemptResults : OutputFinal(r)
    \/ OutputDownload

SpecOutput == InitOutput /\ [][NextOutput]_vars

\* A class at version V, and data with or without a '_version' entry, given to
\* the constructor or, for a nested object, to Object.coerce
InitObject ==
    /\ \E V \in 1..MaxVersion, tag \in 0..MaxVersion, stage \in {"init", "rawdata"} :
        ob = [pc |-> "start", stage |-> stage, V |-> V, given |-> tag,
              data |-> ObjectData(tag, <<>>), version |-> 0, json |-> 0]
    /\ fm = FileMapIdle
    /\ cap = NoCapture
    /\ df = NoDataframe
    /\ en = NoEnumeration
    /\ ev = NoEvaluate
    /\ ty = NoTyping
    /\ lk = NoLock
    /\ rw = NoWorkspaces
    /\ lf = NoLogFiles
    /\ sf = NoStatusFile
    /\ dl = NoDownload
    /\ nm = NoNames
    /\ script = <<>>
    /\ ScriptIdle
    /\ PipelineOff
    /\ NoPremap

NextObject ==
    \/ ObjectPop
    \/ ObjectUpgrade
    \/ ObjectCoerceInto
    \/ ObjectMade
    \/ ObjectToJson

SpecObject == InitObject /\ [][NextObject]_vars

\* A logdir with or without status.txt and objects just opened on it
InitStatus ==
    /\ sf \in [file : {"absent"} \cup StatusSet, cache : [Objects -> {""}],
               last : {[op |-> "none", o |-> 0, m |-> "", fresh |-> FALSE]}]
    /\ fm = FileMapIdle
    /\ cap = NoCapture
    /\ df = NoDataframe
    /\ en = NoEnumeration
    /\ ev = NoEvaluate
    /\ ty = NoTyping
    /\ lk = NoLock
    /\ rw = NoWorkspaces
    /\ lf = NoLogFiles
    /\ ob = NoObject
    /\ dl = NoDownload
    /\ nm = NoNames
    /\ script = <<>>
    /\ ScriptIdle
    /\ PipelineOff
    /\ NoPremap

NextStatus ==
    \/ \E o \in Objects : StatusOpen(o)
    \/ \E o \in Objects, k \in 1..Len(StatusNames) : StatusAssign(o, StatusNames[k])
    \/ \E o \in Objects : StatusRead(o)
    \/ \E o \in Objects : StatusReadRaises(o)

SpecStatus == InitStatus /\ [][NextStatus]_vars

\* A finished instance: what its script left, a postmap of two entries at most,
\* and the files of its remote workspace
InitDownload ==
    /\ dl \in [pc : {"finished"},
               script : {CaseScript},
               book : {Book(o, 1) : o \in ScriptOutcomes(CaseScript)},
               ignore_missing : BOOLEAN,
               postmap : {m \in FileMaps : Len(m) <= 2},
               remote : SUBSET Files,
               local : {{}},
               copied : {TRUE},
               status : {"finished"}]
    /\ fm = FileMapIdle
    /\ cap = NoCapture
    /\ df = NoDataframe
    /\ en = NoEnumeration
    /\ ev = NoEvaluate
    /\ ty = NoTyping
    /\ lk = NoLock
    /\ rw = NoWorkspaces
    /\ lf = NoLogFiles
    /\ ob = NoObject
    /\ sf = NoStatusFile
    /\ nm = NoNames
    /\ script = <<>>
    /\ ScriptIdle
    /\ PipelineOff
    /\ NoPremap

NextDownload ==
    \/ DownloadPostmap
    \/ DownloadCommit
    \/ DownloadCaptureRaises

SpecDownload == InitDownload /\ [][NextDownload]_vars

\* The commands of a case file: named or not, with the path of an executable
NamedCommands == [name : {"", "sh"}, exe : {<<"sh">>, <<"bin", "sh">>, <<"bin", "x">>}]

\* What a command can give: its exit code and the bytes of its two streams
NamedResults ==
    {[rc |-> 0, out |-> "a", err |-> ""],
     [rc |-> 0, out |-> "b", err |-> "e"],
     [rc |-> 1, out |-> "b", err |-> "f"]}

\* An instance whose script is about to run, its books empty
InitNames ==
    /\ nm \in [pc : {"run"},
               script : UNION {[1..n -> NamedCommands] : n \in 1..MaxCmds},
               k : {1}, wrote : {<<>>}, remote : {{}}, local : {{}}, seen : {<<>>}]
    /\ fm = FileMapIdle
    /\ cap = NoCapture
    /\ df = NoDataframe
    /\ en = NoEnumeration
    /\ ev = NoEvaluate
    /\ ty = NoTyping
    /\ lk = NoLock
    /\ rw = NoWorkspaces
    /\ lf = NoLogFiles
    /\ ob = NoObject
    /\ sf = NoStatusFile
    /\ dl = NoDownload
    /\ script = <<>>
    /\ ScriptIdle
    /\ PipelineOff
    /\ NoPremap

NextNames ==
    \/ \E r \in NamedResults : NamesExecute(r)
    \/ NamesCopyBook
    \/ NamesCapture
    \/ NamesCaptureRaises

SpecNames == InitNames /\ [][NextNames]_vars

\* What an earlier collect left in the dataframe: a row for all, or for none
OldData(n) == [i \in 1..n |-> [index |-> i, values |-> OldBook(CaseScript)[1]]]

InitCollect ==
    /\ ninst \in 0..MaxItems
    /\ script = CaseScript
    /\ nprocs = 1
    /\ mainpc \in {"clear", "start"}
    /\ status \in [1..ninst -> StatusSet]
    /\ premap = CasePremap
    /\ srcfiles = CaseFiles
    /\ ignore_missing = FALSE
    /\ InitPipeline
    /\ ScriptIdle
    /\ fm = FileMapIdle
    /\ cap = NoCapture
    /\ en = NoEnumeration
    /\ ev = NoEvaluate
    /\ ty = NoTyping
    /\ lk = NoLock
    /\ rw = NoWorkspaces
    /\ lf = NoLogFiles
    /\ ob = NoObject
    /\ sf = NoStatusFile
    /\ dl = NoDownload
    /\ nm = NoNames
    /\ df \in {[data |-> d, ncollect |-> 0] : d \in {<<>>, OldData(ninst)}}

NextCollect ==
    \/ Next
    \/ CaseCollect
    \/ ClearDataframe

SpecCollect == InitCollect /\ [][NextCollect]_vars

\* ------------------------------------------------------------ properties
\* Event <<s, e>> is in the history of instance i
Has(i, s, e) == \E k \in DOMAIN log[i] : log[i][k] = <<s, e>>

\* apply of pipe s raised for instance i (by itself or through its environment)
Raised(i, s) == Has(i, s, "raise") \/ Has(i, s, "fault")

\* apply of every pipe returned instance i normally
ReturnedByAll(i) == \A s \in 1..NPipes : Has(i, s, "return")

\* C1: when Pipeline.run has returned, its value is true if and only if every
\* input item was returned normally by apply of every pipe, which is the case
\* if and only if the last pipe's npiped equals the number of input items.
C1_RunValue ==
    mainpc = "done" =>
        /\ success <=> (\A i \in Items : ReturnedByAll(i))
        /\ success <=> (npiped[NPipes] = ninputs)

\* C1 happens: a run of two items has returned true
C1_Witness ==
    /\ mainpc = "done"
    /\ success
    /\ ninst = 2
    /\ \A i \in Items : ReturnedByAll(i)

\* C2: an item for which a pipe's apply raised is never begun by a later pipe and
\* is not counted by that pipe (npiped counts exactly the items the pipe passed
\* on); when the run is over every item that no apply raised for was returned by
\* every pipe, and a run in which some apply raised returns false.
C2_RaiseIsolated ==
    /\ \A i \in Items : \A s \in 1..NPipes :
        Raised(i, s) =>
            /\ ~Has(i, s, "piped")
            /\ \A k \in DOMAIN log[i] : log[i][k][1] <= s
    /\ \A s \in 1..NPipes :
        npiped[s] = Cardinality({i \in Items : Has(i, s, "piped")})
    /\ mainpc = "done" =>
        /\ \A i \in Items : (\E s \in 1..NPipes : Raised(i, s)) \/ ReturnedByAll(i)
        /\ (\E i \in Items : \E s \in 1..NPipes : Raised(i, s)) => ~success

\* C2 happens: the only Run worker had its apply raise for the first instance
\* and went on to run the second one, which was then downloaded
C2_Witness ==
    /\ mainpc = "done"
    /\ nprocs = 1
    /\ ninst = 2
    /\ Raised(1, 2)
    /\ ReturnedByAll(2)
    /\ ~success

Holders(i) == {w \in DOMAIN tasks : tasks[w].arg = i}

Queued(i) == {p \in (1..NPipes) \X (1..MaxItems) :
                p[2] <= Len(queues[p[1]]) /\ queues[p[1]][p[2]] = i}

\* C4: in the history of every instance the pipes come in the order Prepare,
\* Run, Download; no pipe begins the instance twice; a pipe begins it only after
\* the pipe before has returned it; and at any time the instance is in at most
\* one place: one queue slot or one task.
C4_OneStageAtATime ==
    \A i \in Items :
        /\ \A a, b \in DOMAIN log[i] :
            /\ a < b => log[i][a][1] <= log[i][b][1]
            /\ (log[i][a] = log[i][b] /\ log[i][a][2] = "begin") => a = b
        /\ \A b \in DOMAIN log[i] :
            (log[i][b][2] = "begin" /\ log[i][b][1] > 1) =>
                \E a \in 1..(b - 1) : log[i][a] = <<log[i][b][1] - 1, "return">>
        /\ Cardinality(Holders(i)) + Cardinality(Queued(i)) <= 1

\* C4 happens: two Run workers hold the two instances at the same time
C4_Witness ==
    /\ \E w1, w2 \in DOMAIN tasks :
        /\ w1 # w2
        /\ tasks[w1].pc = "running" /\ tasks[w1].arg = 1
        /\ tasks[w2].pc = "running" /\ tasks[w2].arg = 2
    /\ Has(1, 1, "return")
    /\ Has(2, 1, "return")

\* The status changes of the lifecycle
Lifecycle == {<<Statuses[k], Statuses[k + 1]>> : k \in 1..(Len(Statuses) - 1)}

\* C5: every step of the pipeline that changes an instance's persisted status
\* changes it from one status to the next of the lifecycle.
C5_StatusSteps ==
    [][(mainpc \in {"join", "gather"}) =>
        (\A i \in Items :
            status'[i] # status[i] => <<status[i], status'[i]>> \in Lifecycle)]_vars

\* C5 happens: one instance went through all four changes, another was handed
\* to Prepare with status Finished and was left as it was
C5_Witness ==
    /\ ninst = 2
    /\ status[1] = "downloaded" /\ ReturnedByAll(1)
    /\ status[2] = "finished" /\ Has(2, 1, "raise")

\* C6, as claimed: after an interrupted run left one instance Downloaded and
\* another Started, no step of the next run changes the Downloaded instance's
\* status or its captured data.
C6_DownloadedUntouched ==
    [][(\A i, j \in Items :
        (status[i] = "downloaded" /\ status[j] = "started") =>
            status'[i] = status[i] /\ captured'[i] = captured[i])]_vars

\* The script of instance i ended with g_success false
ScriptFailed(i) ==
    \/ rbook[i] # NoBook /\ ~rbook[i][1].success
    \/ lbook[i] # NoBook /\ lbook[i][1].run = 1 /\ ~lbook[i][1].success

\* C7, as claimed: when the run is over, every instance whose script ended with
\* g_success false, and whose stages met no I/O error, is Downloaded and was
\* counted by the last pipe.
C7_FailedScriptDownloaded ==
    mainpc = "done" =>
        \A i \in Items :
            (Has(i, 2, "return") /\ ScriptFailed(i) /\ ~Has(i, 3, "fault")) =>
                status[i] = "downloaded" /\ Has(i, NPipes, "piped")

\* Positions of attemptLog and returns
Attempts == DOMAIN attemptLog

Returned == DOMAIN returns

\* Attempt a is of a command that fails for good: non-zero exit, no allow_failure
FailsPlain(a) ==
    /\ attemptLog[a][2] # 0
    /\ ~script[attemptLog[a][1]].allow_failure

\* What C8 says follows a failing command, for the attempt at position a
EndsScript(a) ==
    LET k == attemptLog[a][1] IN
        /\ a = Len(attemptLog)
        /\ spc = "done" /\ ~result
        /\ collector = 1..k
        /\ stdout = 1..k

\* Commands are attempted one at a time, in declaration order
InOrder ==
    /\ attemptLog # <<>> => attemptLog[1][1] = 1
    /\ \A a \in Attempts : a > 1 =>
        attemptLog[a][1] \in {attemptLog[a - 1][1], attemptLog[a - 1][1] + 1}

\* C8, amended: commands are attempted in declaration order, and once a command
\* with neither allowFailure nor retryOnFail exits non-zero the script is over
\* with result false, the captures of that and the earlier commands collected
\* and none of a later command.
C8_FirstFailureEnds ==
    /\ InOrder
    /\ \A a \in Attempts :
        (FailsPlain(a) /\ ~script[attemptLog[a][1]].retry_on_fail) => EndsScript(a)

\* C8 happens: the second of three commands exited non-zero and ended the script
C8_Witness ==
    /\ Len(script) = 3
    /\ spc = "done"
    /\ ~result
    /\ Len(attemptLog) = 2
    /\ attemptLog[2][1] = 2 /\ FailsPlain(2)
    /\ collector = {1, 2}

\* C8, as claimed: once a command without allowFailure exits non-zero the script
\* is over with result false and no later command is executed.
C8_AsClaimed ==
    /\ InOrder
    /\ \A a \in Attempts : FailsPlain(a) => EndsScript(a)

\* C9: Command.execute of a command without retryOnFail returns true if and
\* only if the exit code is 0 or allowFailure is set; and after a command with
\* allowFailure failed the script goes on with the next command, if there is one.
C9_ExecuteValue ==
    \A r \in Returned :
        LET k == returns[r][1]
            rc == returns[r][2]
            ret == returns[r][3]
        IN  ~script[k].retry_on_fail =>
                /\ ret <=> (rc = 0 \/ script[k].allow_failure)
                /\ (rc # 0 /\ script[k].allow_failure /\ k < Len(script)) =>
                      \/ r < Len(returns) /\ returns[r + 1][1] = k + 1
                      \/ r = Len(returns) /\ spc = "exec" /\ cmdIdx = k + 1

\* C9 happens: a command with allowFailure exited non-zero, returned true, and
\* the command after it was executed
C9_Witness ==
    \E r \in Returned :
        /\ ~script[returns[r][1]].retry_on_fail
        /\ script[returns[r][1]].allow_failure
        /\ returns[r][2] # 0
        /\ returns[r][3]
        /\ r < Len(returns)

\* C10: a non-zero attempt of a command with retryOnFail is followed by another
\* attempt of the same command (or that attempt is still running), and
\* Command.execute of such a command returns only with exit code 0 and value true.
C10_RetryUntilZero ==
    /\ \A a \in Attempts :
        LET k == attemptLog[a][1] IN
        (script[k].retry_on_fail /\ attemptLog[a][2] # 0) =>
            \/ a < Len(attemptLog) /\ attemptLog[a + 1][1] = k
            \/ a = Len(attemptLog) /\ spc = "exec" /\ cmdIdx = k
    /\ \A r \in Returned :
        script[returns[r][1]].retry_on_fail => returns[r][2] = 0 /\ returns[r][3]

\* C10 happens: a command with retryOnFail exited non-zero, was started again,
\* exited with 0 and returned true
C10_Witness ==
    /\ Len(attemptLog) >= 2
    /\ attemptLog[1][2] # 0
    /\ attemptLog[2] = <<1, 0>>
    /\ script[1].retry_on_fail
    /\ returns # <<>>
    /\ returns[1] = <<1, 0, TRUE>>

\* Entry k of the file map names a source path that is not there
MissingAt(k) == premap[k].mode = "simple" /\ premap[k].source \notin srcfiles

PremapMissing == \E k \in DOMAIN premap : MissingAt(k)

\* C11, as claimed: when a source file of the premap is missing and
\* ignore_missing is false, Prepare returns no instance, no instance becomes
\* Prepared, no script is started and the run returns false.
C11_MissingFileFailsPrepare ==
    (PremapMissing /\ ~ignore_missing) =>
        \A i \in Items :
            /\ ~Has(i, 1, "return")
            /\ status[i] # "prepared"
            /\ ~Has(i, 2, "begin")
            /\ mainpc = "done" => ~success

\* The entries before entry k, and what copying the present paths of a set of
\* entries puts into the target
Before(k) == {j \in DOMAIN premap : j < k}

CopiedBy(js) == UNION {IterPaths(premap[j], srcfiles) \cap srcfiles : j \in js}

\* The entries FileMap.copy has gone through are the first ones, in order
FirstEntries(done) == \A j \in DOMAIN done : done[j] = j

\* C12: FileMap.copy goes through its entries in order; it returns false if and
\* only if an entry's source path is missing while ignore_missing is false, and
\* then that entry is the last one it went through and the target holds the
\* copies of the entries before it; otherwise it went through every entry, the
\* target holds every present source and the result is true.
C12_FileMapCopy ==
    /\ FirstEntries(fm.done)
    /\ fm.pc = "done" =>
        /\ ~fm.result <=> (PremapMissing /\ ~ignore_missing)
        /\ ~fm.result =>
            /\ fm.done # <<>>
            /\ MissingAt(Len(fm.done))
            /\ \A j \in Before(Len(fm.done)) : ~MissingAt(j)
            /\ fm.target = CopiedBy(Before(Len(fm.done)))
        /\ fm.result =>
            /\ Len(fm.done) = Len(premap)
            /\ fm.target = CopiedBy(DOMAIN premap)

\* C12 happens: the second of three entries is missing, the first was copied
\* and the third, whose source is there, was not
C12_Witness ==
    /\ fm.pc = "done"
    /\ ~fm.result
    /\ Len(premap) = 3
    /\ fm.done = <<1, 2>>
    /\ fm.target = {premap[1].source}
    /\ premap[3].mode = "simple"
    /\ premap[3].source \in srcfiles
    /\ premap[3].source \notin fm.target

\* ---- captures
\* find_in has just returned
Found == cap.pc = "commit"

\* The values of group g in the matches, in order of occurrence
GroupTexts(g) == [j \in 1..Len(cap.matches) |-> cap.matches[j][g]]

\* C13: when the regex matches k >= 1 times, mode first yields the named
\* groups of the first match, mode last those of the last match, and mode all
\* yields for each named group a list of exactly the k values, in order of
\* occurrence
C13_ModesAsClaimed ==
    (Found /\ Len(cap.matches) >= 1) =>
        \A g \in 1..cap.capture.ngroups :
            /\ Groups[g] \in DOMAIN cap.collector
            /\ cap.capture.mode = "first" =>
                   cap.collector[Groups[g]] = ScalarValue(cap.matches[1][g])
            /\ cap.capture.mode = "last" =>
                   cap.collector[Groups[g]] = ScalarValue(cap.matches[Len(cap.matches)][g])
            /\ cap.capture.mode = "all" =>
                   cap.collector[Groups[g]] = [d |-> 1, xs |-> GroupTexts(g)]

\* C14: when the regex does not match, find_in leaves the collector as it was,
\* in every mode: mode all adds no empty list
C14_NoMatchNoChange ==
    (Found /\ cap.matches = <<>>) => cap.collector = cap.before

C14_Witness == Found /\ cap.matches = <<>> /\ cap.capture.mode = "all"

RowsOf(data) == {data[k].index : k \in 1..Len(data)}

\* One row for each index, rows in the order of the indices
ByIndex(data) == \A a, b \in 1..Len(data) : a < b => data[a].index < data[b].index

\* C16: collecting again from a storage that has not changed gives the table of
\* the first collect: every instance has one row, under its g_index (a second
\* collect replaces the row), and the rows are in the order of the indices
C16_CollectIdempotent ==
    [][(df'.ncollect = df.ncollect + 1) =>
        (/\ ByIndex(df'.data)
         /\ \A order \in Orders(InstanceDirs(captured')) :
               CollectAll(df'.data, captured', order) = df'.data)]_vars

C16_Witness ==
    /\ df.ncollect = 2 /\ mainpc = "done"
    /\ Len(df.data) = 2
    /\ \E k \in 1..2 : df.data[k].values.run > 0

Cartesian(pools) ==
    {t \in UNION {[1..Len(pools) -> 1..MaxValues]} : \A j \in 1..Len(pools) : t[j] <= Len(pools[j])}

\* s comes before t in insertion-major order, the last parameter fastest
Precedes(s, t) ==
    \E j \in 1..Len(s) : s[j] < t[j] /\ \A i \in 1..(j - 1) : s[i] = t[i]

\* The product of the lengths of the first j parameters
RECURSIVE SizeFrom(_, _)
SizeFrom(pools, j) == IF j = 0 THEN 1 ELSE Len(pools[j]) * SizeFrom(pools, j - 1)

Yielded == {en.out[j].values : j \in 1..Len(en.out)}

\* C19: the enumeration yields one context for each tuple of the Cartesian
\* product that passes every where condition (as many as the product of the
\* parameters' lengths less the tuples filtered), none twice, in
\* insertion-major order with the last parameter varying fastest
C19_EnumerationIsFilteredProduct ==
    /\ \A a, b \in 1..Len(en.out) : a < b => Precedes(en.out[a].values, en.out[b].values)
    /\ Yielded \subseteq {t \in Cartesian(en.pools) : Where(en.where, t)}
    /\ en.pc = "done" =>
        /\ Yielded = {t \in Cartesian(en.pools) : Where(en.where, t)}
        /\ Len(en.out) = SizeFrom(en.pools, Len(en.pools))
                         - Cardinality({t \in Cartesian(en.pools) : ~Where(en.where, t)})

C19_Witness ==
    /\ en.pc = "done"
    /\ Len(en.pools) = 2
    /\ Len(en.out) >= 3
    /\ Len(en.out) < SizeFrom(en.pools, 2)

\* C20: the g_index values of the yielded contexts are 0, 1, ..., n-1 in the
\* order they are yielded: a tuple that where filters takes no index
C20_IndexContiguous ==
    \A j \in 1..Len(en.out) : en.out[j].g_index = j - 1

C20_Witness ==
    /\ en.pc = "done"
    /\ en.where = {"increasing"}
    /\ Len(en.pools) = 2 /\ Len(en.pools[1]) = 3 /\ Len(en.pools[2]) = 3
    /\ Len(en.out) = 3
    /\ en.out[3].values = <<2, 3>>

\* ---- contexts
\* The names of the evaluables
EvaluableNames == {ev.evaluables[k].name : k \in 1..Len(ev.evaluables)}

\* What the k-th evaluable reads under name n: the result of the evaluable of
\* that name when it was declared earlier, else the value given, else the constant
Seen(k, n) ==
    IF \E j \in 1..(k - 1) : ev.evaluables[j].name = n THEN <<ev.context[n]>>
    ELSE IF n \in DOMAIN ev.given THEN <<ev.given[n]>>
    ELSE IF n \in DOMAIN ev.constants THEN <<ev.constants[n]>>
    ELSE <<>>

\* C22: a constant enters the names and the context only under a name that is
\* not there: a value given under the name of a constant is not replaced; the
\* evaluables are evaluated in the order they are declared, each one seeing
\* the results of those before it
C22_ConstantsDoNotOverride ==
    /\ ev.pc \in {"loop", "done", "raised"} =>
        \A n \in DOMAIN ev.given \ EvaluableNames :
            n \in DOMAIN ev.names /\ ev.names[n] = ev.given[n] /\ ev.context[n] = ev.given[n]
    /\ (ev.pc = "done" /\ ev.add_constants) =>
        \A n \in DOMAIN ev.constants \ (DOMAIN ev.given \cup EvaluableNames) :
            n \in DOMAIN ev.context /\ ev.context[n] = ev.constants[n]
    /\ (ev.pc = "done" /\ ~ev.allowed.all /\ ev.allowed.names = {}) =>
        \A k \in 1..Len(ev.evaluables) :
            LET e == ev.evaluables[k] IN
            /\ e.name \in DOMAIN ev.context
            /\ e.code.kind = "lit" => ev.context[e.name] = e.code.val
            /\ e.code.kind = "inc" =>
                   /\ Seen(k, e.code.name) # <<>>
                   /\ ev.context[e.name] = Seen(k, e.code.name)[1] + 1

C22_Witness ==
    /\ ev.pc = "done" /\ ~ev.allowed.all /\ ev.allowed.names = {}
    /\ "a" \in DOMAIN ev.given /\ "a" \in DOMAIN ev.constants
    /\ Len(ev.evaluables) = 2
    /\ ev.evaluables[1] = [name |-> "x", code |-> [kind |-> "inc", name |-> "a", val |-> 0]]
    /\ ev.evaluables[2] = [name |-> "y", code |-> [kind |-> "inc", name |-> "x", val |-> 0]]
    /\ ev.context["y"] = ev.given["a"] + 2

\* What an evaluable's code gives in a context that holds what it reads
CodeValue(code, context) ==
    IF code.kind = "lit" THEN code.val ELSE context[code.name] + 1

\* C21: a case without parameters yields one instance, of g_index 0, and its
\* context holds the constants and the evaluables as evaluated, nothing else
C21_NoParametersOneInstance ==
    (en.pc = "done" /\ en.pools = <<>>) =>
        /\ Len(en.out) = 1
        /\ en.out[1].g_index = 0
        /\ LET context == en.out[1].context
               names == {en.evaluables[k].name : k \in 1..Len(en.evaluables)}
           IN /\ DOMAIN context = DOMAIN en.constants \cup names
              /\ \A n \in DOMAIN en.constants \ names : context[n] = en.constants[n]
              /\ \A k \in 1..Len(en.evaluables) :
                     context[en.evaluables[k].name] = CodeValue(en.evaluables[k].code, context)

C21_Witness ==
    /\ en.pc = "done" /\ en.pools = <<>>
    /\ Len(en.out) = 1
    /\ DOMAIN en.out[1].context = {"a", "k", "x", "y"}

\* A value without a datetime that carries a time zone
Naive(v) == ~v.tz /\ \A j \in 1..Len(v.xs) : ~v.xs[j].tz

\* C23 (as amended): for every type among Integer, Float, String, Boolean,
\* DateTime and List of these, and every value the type's coerce accepts whose
\* datetimes are naive, coercing the JSON encoding of coerce(v) gives coerce(v)
\* again, and coercing coerce(v) gives coerce(v)
C23_RoundTrip ==
    (ty.pc = "decoded" /\ Naive(ty.coerced))
        => /\ ty.decoded = Returns(ty.coerced)
           /\ TypeCoerce(ty.type, ty.coerced) = Returns(ty.coerced)

\* A datetime given as text to a list type has gone through the round trip
C23_Witness ==
    /\ ty.pc = "decoded"
    /\ ty.type = [list |-> TRUE, el |-> "DateTime"]
    /\ ty.value.k = "str"
    /\ ty.coerced = ListValue(<<DateTimeValue(1, FALSE)>>)
    /\ ty.encoded = ListValue(<<StrValue("T1")>>)
    /\ ty.decoded = Returns(ty.coerced)

\* C23 as stated: the round trip gives coerce(v) again for every accepted value
C23_AsClaimed ==
    ty.pc = "decoded" => ty.decoded = Returns(ty.coerced)

\* C24: List<T>.coerce maps a list element-wise through T.coerce and any other
\* value v to the one-element list [T.coerce(v)]; coerce_into on a List type
\* with an existing list returns the existing elements followed by the coerced
\* new value or values, and on a scalar type coerce(new) whatever exists
C24_ListCoercion ==
    /\ (ty.pc = "coerced" /\ ty.type.list /\ ty.value.k = "list")
        => /\ Len(ty.coerced.xs) = Len(ty.value.xs)
           /\ \A j \in 1..Len(ty.value.xs) :
                  Returns(ty.coerced.xs[j]) = ScalarTypeCoerce(ty.type.el, ty.value.xs[j])
    /\ (ty.pc = "coerced" /\ ty.type.list /\ ty.value.k # "list")
        => Returns(ty.coerced.xs[1]) = ScalarTypeCoerce(ty.type.el, ty.value)
           /\ Len(ty.coerced.xs) = 1
    /\ (ty.pc = "into" /\ ty.type.list /\ ty.existing.k = "list")
        => /\ ty.into.ok = TypeCoerce(ty.type, ty.value).ok
           /\ ty.into.ok
                => ty.into.v.xs = ty.existing.xs \o TypeCoerce(ty.type, ty.value).v.xs
    /\ (ty.pc = "into" /\ ~ty.type.list)
        => ty.into = ScalarTypeCoerce(ty.type.el, ty.value)

\* A list of two values has been coerced into a list type after two existing
\* elements
C24_Witness ==
    /\ ty.pc = "into"
    /\ ty.type = [list |-> TRUE, el |-> "Integer"]
    /\ ty.existing = ListValue(<<IntValue(2), StrValue("1")>>)
    /\ ty.value = ListValue(<<StrValue("1"), BoolValue(FALSE)>>)
    /\ ty.into = Returns(ListValue(<<IntValue(2), StrValue("1"), IntValue(1), IntValue(0)>>))

\* ---- storage lock
\* C25: Case.run, Case.collect and Case.capture each hold the lock on the
\* storage root's lockfile for their whole duration: no two processes are inside
\* any two of these operations at the same time
C25_OneOperationAtATime ==
    \A p, q \in Procs : (p # q /\ lk.op[p] # "idle") => lk.op[q] = "idle"

\* ---- remote workspaces
\* C26: no two instances of one run are bound to the same remote workspace
\* directory: the directories opened for instance i in Prepare, Run and Download
\* are distinct from those opened for any other instance j, whatever the logdir
\* template
C26_OwnRemoteWorkspace ==
    \A i, j \in 1..rw.n : i # j => rw.opened[i] \cap rw.opened[j] = {}

\* ---- download and the remote workspace
\* Instance i is in no queue and no task holds it
Dropped(i) == Holders(i) = {} /\ Queued(i) = {}

\* The step in which Download has raised on instance i
DownloadRaisedOn(i) ==
    /\ Len(log'[i]) > Len(log[i])
    /\ log'[i][Len(log'[i])] \in {<<NPipes, "raise">>, <<NPipes, "fault">>}

\* C27: the Download stage destroys an instance's remote workspace only in the
\* step in which Instance.download has returned (status downloaded, captured
\* data stored); in a step in which download raises the remote workspace stays
\* and the item is dropped: not counted, in no queue, held by no task
C27_DestroyOnlyAfterDownload ==
    [][\A i \in Items :
        /\ (remote[i] /\ ~remote'[i])
            => /\ status'[i] = "downloaded"
               /\ captured'[i] # NoBook
               /\ log'[i] = log[i] \o <<<<NPipes, "begin">>, <<NPipes, "return">>, <<NPipes, "piped">>>>
        /\ DownloadRaisedOn(i)
            => /\ remote'[i]
               /\ status'[i] = status[i]
               /\ npiped'[NPipes] = npiped[NPipes]
               /\ Dropped(i)']_vars

\* One instance has been downloaded and its workspace destroyed, and download
\* has raised on the other, whose workspace is still there
C27_Witness ==
    /\ ninst = 2
    /\ \E i, j \in Items :
        /\ Has(i, NPipes, "return") /\ ~remote[i] /\ status[i] = "downloaded"
        /\ Has(j, NPipes, "raise") /\ remote[j] /\ Dropped(j)

\* ---- output files
\* The files of command k in a book are exactly its stdout and stderr with the
\* bytes of the attempt after which Command.execute returned
HoldsOutput(files, k) == {f \in files : f[1] = k} = OutputFiles(k, lf.wrote[k])

VersionsFrom(v, V) == [j \in 1..(IF v < V THEN V - v ELSE 0) |-> v + j - 1]

\* C29: a TypedObject made from data tagged '_version' v below the class's
\* version V has had upgrade_data applied exactly once for each version v, ...,
\* V-1, in ascending order; data without '_version' or at version V is not
\* upgraded; and to_json reports '_version' V
C29_UpgradedOnceEach ==
    /\ ob.pc \in {"made", "json"}
        => ob.data.ups = (IF ob.given = 0 THEN <<>> ELSE VersionsFrom(ob.given, ob.V))
    /\ ob.pc = "json" => ob.json = ob.V

\* An object of a class at version 3 has been made from data tagged version 1
\* and written as JSON
C29_Witness ==
    /\ ob.pc = "json"
    /\ ob.stage = "rawdata"
    /\ ob.given = 1
    /\ ob.V = 3
    /\ ob.data.ups = <<1, 2>>
    /\ ob.json = 3

\* ---- copies of a stage
\* The instances inside the apply of pipe s: those a task of the pipe is
\* awaiting the script of
InApply(s) == {tasks[w].arg : w \in {v \in DOMAIN tasks : v[1] = s /\ tasks[v].pc = "running"}}

\* C30: at every moment the number of instances inside a stage's apply, and the
\* number of worker tasks the stage has, is at most the stage's copy count: 1
\* for Prepare and Download, nprocs for Run
C30_AtMostNcopies ==
    \A s \in 1..NPipes :
        LET limit == IF Pipes[s] = "Run" THEN nprocs ELSE 1 IN
        /\ Cardinality(InApply(s)) <= limit
        /\ Cardinality({w \in DOMAIN tasks : w[1] = s /\ tasks[w].pc = "running"}) <= limit
        /\ Cardinality({w \in DOMAIN tasks : w[1] = s}) <= limit

\* With as many instances as Run has copies, and more than one, the scripts of
\* nprocs instances are running at the same time
C30_Witness ==
    /\ nprocs = MaxCopies
    /\ ninst >= nprocs
    /\ \E s \in 1..NPipes : Pipes[s] = "Run" /\ Cardinality(InApply(s)) = nprocs

\* ---- hand-off channels
\* The tasks of pipe s that have an item apply returned and await out_queue.put
Putting(s) == {w \in DOMAIN tasks : w[1] = s /\ tasks[w].pc = "put"}

\* C31: each queue between two consecutive pipes holds at most one item; a task
\* that awaits the put of an item does nothing else until the next pipe's queue
\* has accepted that item or the task is cancelled; so the items that finished
\* pipe s and were not yet taken by pipe s+1 are at most 1 + N_s
C31_Backpressure ==
    /\ [](\A s \in 1..(NPipes - 1) :
            /\ Len(queues[s + 1]) <= 1
            /\ Len(queues[s + 1]) + Cardinality(Putting(s))
                <= 1 + (IF Pipes[s] = "Run" THEN nprocs ELSE 1))
    /\ [][\A w \in DOMAIN tasks :
            (tasks[w].pc = "put" /\ w \in DOMAIN tasks' /\ tasks'[w] # tasks[w])
                => \/ /\ tasks'[w].pc = "get"
                      /\ queues[w[1] + 1] = <<>>
                      /\ queues'[w[1] + 1] = <<tasks[w].arg>>
                      /\ queues'[w[1]] = queues[w[1]]
                   \/ /\ tasks'[w] = [tasks[w] EXCEPT !.cancel = TRUE]
                   \/ /\ tasks[w].cancel
                      /\ tasks'[w] = [tasks[w] EXCEPT !.pc = "exited"]]_vars

\* The queue of Run is full and the task of Prepare waits to put the next
\* instance
C31_Witness ==
    /\ Len(queues[2]) = 1
    /\ \E w \in Putting(1) : tasks[w].arg # queues[2][1]

\* ---- order
\* Instance i was dropped by a pipe before pipe s
DroppedBefore(i, s) == \E r \in 1..(s - 1) : Raised(i, r)

\* C32: when every pipe has one task, every pipe begins the instances in the
\* order of the source (an instance is begun by a pipe only when every earlier
\* instance was begun by that pipe or dropped before it), and the instances
\* that are not dropped leave the last pipe in that order
C32_SourceOrder ==
    nprocs = 1 =>
        \A i, j \in Items :
            i < j =>
                /\ \A s \in 1..NPipes :
                    Has(j, s, "begin") => (Has(i, s, "begin") \/ DroppedBefore(i, s))
                /\ Has(j, NPipes, "piped")
                    => (Has(i, NPipes, "piped") \/ DroppedBefore(i, NPipes + 1))

\* With one task per pipe the first instance has left the last pipe and the
\* second is inside the pipeline behind it
C32_Witness ==
    /\ nprocs = 1
    /\ ninst = 2
    /\ Has(1, NPipes, "piped")
    /\ Has(2, 2, "begin")
    /\ ~Has(2, NPipes, "begin")

\* ---- status file
\* C33: after a status assignment status.txt holds the value of the new status,
\* and the status an object with unset cache reads is the one status.txt holds,
\* the one persisted last
C33_StatusPersisted ==
    /\ sf.last.op = "set" => sf.file = StatusValue(sf.last.m)
    /\ (sf.last.op = "get" /\ sf.last.fresh) => sf.file = StatusValue(sf.last.m)

\* One object has assigned Started and another, newly opened, has read it
C33_Witness ==
    /\ sf.last = [op |-> "get", o |-> 2, m |-> "Started", fresh |-> TRUE]
    /\ sf.cache[1] = "Started"
    /\ sf.file = "started"

\* ---- status in Run
\* The tasks of Run that await the script of instance i
RunningOn(i) == {w \in DOMAIN tasks : Pipes[w[1]] = "Run" /\ tasks[w].pc = "running" /\ tasks[w].arg = i}

\* C34: while the script of an instance is running under Run its persisted
\* status is started; finished is written only in the step in which the script
\* returns; and in a step in which the script raises the status stays started
\* and the instance is dropped
C34_StartedWhileRunning ==
    /\ [](\A i \in Items : RunningOn(i) # {} => status[i] = "started")
    /\ [][\A i \in Items :
            /\ (status'[i] = "finished" /\ status[i] # "finished")
                => /\ RunningOn(i) # {}
                   /\ RunningOn(i)' = {}
                   /\ Len(log'[i]) > Len(log[i])
                   /\ log'[i][Len(log[i]) + 1] = <<2, "return">>
            /\ (Len(log'[i]) > Len(log[i]) /\ log'[i][Len(log'[i])] = <<2, "fault">>)
                => /\ status[i] = "started"
                   /\ status'[i] = "started"
                   /\ npiped' = npiped
                   /\ Dropped(i)']_vars

\* The script of one instance is running while that of the other has raised
C34_Witness ==
    /\ ninst = 2
    /\ \E i, j \in Items :
        /\ RunningOn(i) # {} /\ status[i] = "started"
        /\ Has(j, 2, "fault") /\ status[j] = "started" /\ Dropped(j)

\* ---- download and postmap
\* A source of the postmap is not in the remote workspace
PostmapMissing ==
    \E k \in DOMAIN dl.postmap : \E f \in IterPaths(dl.postmap[k], dl.remote) : f \notin dl.remote

\* C35, as claimed: when download has ended and a postmap source was missing,
\* the instance is Downloaded if ignore_missing is set or the script failed,
\* and is not Downloaded if the script succeeded and ignore_missing is false
C35_MissingPostmapSource ==
    (dl.pc \in {"downloaded", "raised"} /\ PostmapMissing)
        => (dl.status = "downloaded") = (dl.ignore_missing \/ ~dl.book[1].success)

\* ---- cancellation from outside
\* C36: once the run is cancelled from outside every worker task ends, and
\* ends by returning; a task that is cancelled while it waits for its next
\* item changes no status and no npiped
C36_CancelledWorkersExit ==
    /\ (mainpc = "cancelled") ~> (\A w \in DOMAIN tasks : tasks[w].pc = "exited")
    /\ [][\A w \in DOMAIN tasks \cap DOMAIN tasks' :
            (tasks[w].cancel /\ tasks[w].pc # "exited" /\ tasks'[w].pc # tasks[w].pc)
                => /\ tasks'[w].pc = "exited"
                   /\ tasks[w].pc = "get" => (status' = status /\ npiped' = npiped)]_vars

\* The run was cancelled while one instance was in its script and another had
\* not been taken by the first pipe; every task has ended
C36_Witness ==
    /\ mainpc = "cancelled"
    /\ \A w \in DOMAIN tasks : tasks[w].pc = "exited"
    /\ queues[1] # <<>>
    /\ \E i \in Items : status[i] = "started" /\ Has(i, 2, "begin") /\ ~Has(i, 2, "return")

\* ---- closing the pipes
\* The tasks of pipe s are cancelled in this step
Closing(s) ==
    \E w \in DOMAIN tasks \cap DOMAIN tasks' :
        w[1] = s /\ ~tasks[w].cancel /\ tasks'[w].cancel

\* The items that were put on the input queue of pipe s
PutOn(s) == IF s = 1 THEN Items ELSE {i \in Items : Has(i, s - 1, "piped")}

\* C37: when the pipeline cancels the tasks of a pipe, every item that was put
\* on the pipe's input queue has been passed on or dropped and marked done, no
\* task of the pipe holds an item, every earlier pipe is closed and no later
\* one is
C37_ClosedWhenDrained ==
    [][\A s \in 1..NPipes : Closing(s) =>
            /\ queues[s] = <<>>
            /\ unfinished[s] = 0
            /\ \A i \in PutOn(s) : Has(i, s, "piped") \/ Raised(i, s)
            /\ \A w \in DOMAIN tasks :
                /\ w[1] = s => tasks[w].pc = "get" /\ tasks[w].arg = 0
                /\ w[1] < s => tasks[w].cancel
                /\ w[1] > s => ~tasks[w].cancel /\ ~tasks'[w].cancel]_vars

\* The second pipe has been closed after it passed one item on and dropped
\* another, and the third is still open
C37_Witness ==
    /\ mainpc = "join"
    /\ joinIdx = 3
    /\ \A w \in DOMAIN tasks : tasks[w].cancel = (w[1] < 3)
    /\ \E i, j \in Items : Has(i, 2, "piped") /\ Raised(j, 2)

\* ---- accounting at the end of a run
\* The instances pipe s has taken, passed on and dropped, and the number of
\* times pipe s has passed instance i on
TakenBy(s) == {i \in Items : Has(i, s, "begin")}

PipedBy(s) == {i \in Items : Has(i, s, "piped")}

DroppedBy(s) == {i \in Items : Raised(i, s)}

TimesPiped(i, s) == Cardinality({k \in DOMAIN log[i] : log[i][k] = <<s, "piped">>})

\* C38: when a run has ended every instance was either returned by the last
\* pipe, once, or dropped by exactly one pipe, and never both; no queue and no
\* task holds an instance; every pipe has taken as many instances as it counts
\* in npiped plus those it dropped; and at no time does a pipe count more
\* instances than the pipe before it
C38_EveryItemAccounted ==
    /\ \A s \in 1..(NPipes - 1) : npiped[s + 1] <= npiped[s]
    /\ mainpc = "done" =>
        /\ \A i \in Items :
            /\ TimesPiped(i, NPipes) <= 1
            /\ Cardinality({s \in 1..NPipes : Raised(i, s)}) <= 1
            /\ (TimesPiped(i, NPipes) = 1) # (\E s \in 1..NPipes : Raised(i, s))
            /\ Holders(i) = {} /\ Queued(i) = {}
        /\ \A s \in 1..NPipes :
            /\ queues[s] = <<>>
            /\ npiped[s] = Cardinality(PipedBy(s))
            /\ Cardinality(TakenBy(s)) = npiped[s] + Cardinality(DroppedBy(s))
            /\ PipedBy(s) \cap DroppedBy(s) = {}

\* A run of two instances has ended: one was returned by the last pipe and the
\* other was dropped by the second
C38_Witness ==
    /\ mainpc = "done"
    /\ \E i, j \in Items : Has(i, NPipes, "piped") /\ Raised(j, 2)
    /\ npiped = <<2, 1, 1>>

\* ---- retrying without bound
\* Command.execute is in its loop on a command with retry_on_fail
Retrying == lf.pc = "run" /\ lf.script[lf.k].retry_on_fail

\* C39: Command.execute keeps no count of the attempts of a command with
\* retry_on_fail. After any number of attempts that exited non-zero (up to the
\* number the model follows) the next attempt can exit non-zero and be repeated
\* again; a repeated attempt writes no file and leaves execute in its loop on
\* the same command; execute leaves the loop only on an attempt that exited
\* with 0; and the command's stdout and stderr are written in that step only,
\* with the bytes of that attempt
C39_RetriesUnbounded ==
    /\ [](Retrying /\ lf.attempts < MaxAttempts
            => ENABLED (\E r \in AttemptResults : r.rc # 0 /\ OutputRetry(r)))
    /\ [][Retrying =>
            /\ lf'.attempts > lf.attempts =>
                /\ lf'.remote = lf.remote
                /\ lf'.rcs = lf.rcs
                /\ lf'.k = lf.k
                /\ lf'.pc = "run"
            /\ Len(lf'.rcs) = Len(lf.rcs) => lf'.remote = lf.remote
            /\ Len(lf'.rcs) > Len(lf.rcs) =>
                /\ lf'.rcs = Append(lf.rcs, 0)
                /\ lf'.wrote[lf.k].rc = 0
                /\ lf'.remote = {f \in lf.remote : f[1] # lf.k} \cup OutputFiles(lf.k, lf'.wrote[lf.k])]_vars

\* The second command of a script has retry_on_fail and has exited non-zero
\* as often as the model follows; execute has not returned and the command has
\* no output file yet, while the first command has its own
C39_Witness ==
    /\ lf.pc = "run"
    /\ lf.k = 2
    /\ lf.script[2].retry_on_fail
    /\ lf.attempts = MaxAttempts
    /\ Len(lf.rcs) = 1
    /\ {f \in lf.remote : f[1] = 2} = {}
    /\ {f \in lf.remote : f[1] = 1} # {}

\* ---- names of the book files
\* The commands that were executed, and the last of them that has the name of
\* command k
Executed == 1..Len(nm.wrote)

LastNamed(k) ==
    LET same == {j \in Executed : CommandName(nm.script[j]) = CommandName(nm.script[k])} IN
    CHOOSE j \in same : \A i \in same : i <= j

\* The bytes under the name of command k, of the given kind, in a book
Stored(files, k, kind) ==
    {f[2] : f \in {g \in files : g[1] = BookFile(k, CommandName(nm.script[k]), kind)}}

\* C40: the book holds one stdout and one stderr per command name. Of the
\* executed commands that have the same name it holds the output of the one
\* executed last, also under the eyes of the earlier ones; and at download the
\* captures of every command are applied to the stdout of the last executed
\* command that has its name
C40_FilesKeyedByName ==
    /\ nm.pc # "off" =>
        \A k \in Executed :
            /\ Stored(nm.remote, k, "stdout") = {nm.wrote[LastNamed(k)].out}
            /\ Stored(nm.remote, k, "stderr") = {nm.wrote[LastNamed(k)].err}
    /\ nm.pc \in {"capture", "raised", "downloaded"} =>
        \A k \in 1..Len(nm.seen) :
            /\ \E j \in Executed : CommandName(nm.script[j]) = CommandName(nm.script[k])
            /\ nm.seen[k] = nm.wrote[LastNamed(k)].out

\* Two commands without a name whose executables are sh and bin/sh wrote
\* different bytes; at download the captures of both saw the bytes of the second
C40_Witness ==
    /\ nm.pc = "downloaded"
    /\ Len(nm.script) = 2
    /\ nm.script[1] = [name |-> "", exe |-> <<"sh">>]
    /\ nm.script[2] = [name |-> "", exe |-> <<"bin", "sh">>]
    /\ nm.wrote[1].out = "a"
    /\ nm.wrote[2].out = "b"
    /\ nm.seen = <<"b", "b">>
    /\ nm.remote = {<<<<"sh", "stdout">>, "b">>, <<<<"sh", "stderr">>, "e">>}

====
